---- MODULE Spec2Model ----
(***************************************************************************)
(* Model of the rune-lock fact solver: the fact database (fact_db.rs), the *)
(* rule evaluator (rule.rs, index.rs), and the assumption tree driven by   *)
(* FactualSolver (fact_solver/mod.rs, assumption_tree.rs).                 *)
(*                                                                         *)
(* Handles are 0-based as in the source (FactHandle(self.facts.len())); the*)
(* log is a TLA+ sequence, so the fact of handle h is facts[h + 1].        *)
(***************************************************************************)
EXTENDS Integers, Sequences, FiniteSets

\* FactDb::new(12, 12): the grid FactualSolver::new builds.
NumRunes == 12
NumActivations == 12

\* Bounds of the model: a command is started while the tree holds fewer than
\* MaxNodes nodes, the commands name RunePositions 0 .. MaxPosition and
\* Activations 0 .. MaxActivation, and try_possibilities is run on the lines
\* that have at most MaxTry candidates.
MaxNodes == 3
MaxPosition == 1
MaxActivation == 1
MaxTry == 2

Positions == 0 .. (NumRunes - 1)
Activations == 0 .. (NumActivations - 1)
Cells == Positions \X Activations

\* Option::None of a grid cell, of a node's parent, of an Assignment entry.
None == -1

----------------------------------------------------------------------------
\* Facts (fact_solver/mod.rs)

MustBe == "ActivationMustBeOn"
CannotBe == "ActivationCannotBeOn"
ContradictingRequirements == "ContradictingRequirements"
NoOptionsLeft == "NoOptionsLeft"

\* FactKind::Contradiction(_), whatever its ContradictionKind.
IsContradiction(kind) == kind \in {ContradictingRequirements, NoOptionsLeft}

\* The arms of integrate_single_fact's match that treat two kinds as equivalent:
\* (MustBe, MustBe) | (Contradiction(_), Contradiction(_)) | (CannotBe, CannotBe).
EquivalentKind(a, b) ==
    \/ a = MustBe /\ b = MustBe
    \/ IsContradiction(a) /\ IsContradiction(b)
    \/ a = CannotBe /\ b = CannotBe

\* A variant that cites the handle after the one given.
ReasonFactAfter(handle, origin) == [tag |-> "Fact", ref |-> handle + 1, origin |-> origin]

ReasonFact(handle, origin) == [tag |-> "Fact", ref |-> handle, origin |-> origin]
ReasonRule(rule_index) == [tag |-> "Rule", ref |-> rule_index, origin |-> ""]
ReasonAssumption == [tag |-> "Assumption", ref |-> 0, origin |-> ""]

Fact(kind, position, activation, reasons) ==
    [kind |-> kind, activation |-> activation, position |-> position,
     reasons |-> reasons]

----------------------------------------------------------------------------
\* The fact database (fact_db.rs)

FactDbNew == [facts |-> << >>, fact_lookup |-> [c \in Cells |-> None]]

\* FactDb::get / self.facts.get(handle.0).unwrap()
FactAt(db, handle) == db.facts[handle + 1]

Lookup(db, position, activation) == db.fact_lookup[<<position, activation>>]

\* The kind of the current fact of a cell, "Unknown" for an empty cell.
KindAt(db, position, activation) ==
    IF Lookup(db, position, activation) = None
    THEN "Unknown"
    ELSE FactAt(db, Lookup(db, position, activation)).kind

\* self.facts.push(fact)
PushFact(db, fact) == [db EXCEPT !.facts = Append(@, fact)]

\* A variant that indexes the grid with the coordinates swapped.
PushAndStoreSwapped(db, fact) ==
    [facts |-> Append(db.facts, fact),
     fact_lookup |-> [db.fact_lookup EXCEPT
                        ![<<fact.activation, fact.position>>] = Len(db.facts)]]

\* self.facts.push(fact); *existing_fact = Some(handle)
PushAndStore(db, fact) ==
    [facts |-> Append(db.facts, fact),
     fact_lookup |-> [db.fact_lookup EXCEPT
                        ![<<fact.position, fact.activation>>] = Len(db.facts)]]

\* A variant that records the existing fact once more and reports a change.
UnchangedRecorded(db, handle) ==
    [db |-> [db EXCEPT !.facts = Append(@, db.facts[handle + 1])],
     tag |-> "Integrated", handle |-> handle]

Unchanged(db, handle) == [db |-> db, tag |-> "Unchanged", handle |-> handle]
Integrated(db, handle) == [db |-> db, tag |-> "Integrated", handle |-> handle]

\* Variants of IntegrateClash, each with one slip: the incoming fact is stored
\* in the cell; the contradiction replaces the existing fact in the log; the
\* contradiction cites only the incoming fact.
IntegrateClashStoringNew(db, fact, existing_handle) ==
    LET new_handle == Len(db.facts)
        contradiction ==
            Fact(ContradictingRequirements, fact.position, fact.activation,
                 << ReasonFact(existing_handle, "integrate_single_fact"),
                    ReasonFact(new_handle, "integrate_single_fact") >>)
    IN  Integrated(PushFact(PushAndStore(db, fact), contradiction), new_handle + 1)

IntegrateClashInPlace(db, fact, existing_handle) ==
    LET contradiction ==
            Fact(ContradictingRequirements, fact.position, fact.activation,
                 << ReasonFact(existing_handle, "integrate_single_fact") >>)
    IN  Integrated([db EXCEPT !.facts[existing_handle + 1] = contradiction],
                   existing_handle)

IntegrateClashCitingNew(db, fact, existing_handle) ==
    LET new_handle == Len(db.facts)
        contradiction ==
            Fact(ContradictingRequirements, fact.position, fact.activation,
                 << ReasonFact(new_handle, "integrate_single_fact") >>)
    IN  Integrated(PushFact(PushFact(db, fact), contradiction), new_handle + 1)

\* The arm (CannotBe, MustBe) | (MustBe, CannotBe): the incoming fact and a
\* Contradiction(ContradictingRequirements) citing both are pushed to the log;
\* the grid cell is not assigned in this arm.
IntegrateClash(db, fact, existing_handle) ==
    LET new_handle == Len(db.facts)
        contradiction ==
            Fact(ContradictingRequirements, fact.position, fact.activation,
                 << ReasonFact(existing_handle, "integrate_single_fact"),
                    ReasonFact(new_handle, "integrate_single_fact") >>)
        contradicting_handle == new_handle + 1
    IN  Integrated(PushFact(PushFact(db, fact), contradiction), contradicting_handle)

\* A variant that lets the incoming fact overwrite an existing Contradiction.
IntegrateOverContradiction(db, fact, existing_handle) ==
    Integrated(PushAndStore(db, fact), Len(db.facts))

\* The arm (Contradiction(_), _): an existing Contradiction is not overwritten.
IntegrateIntoContradiction(db, fact, existing_handle) ==
    Unchanged(db, existing_handle)

IntegrateSingleFact(db, fact) ==
    LET existing_handle == Lookup(db, fact.position, fact.activation)
    IN  IF existing_handle # None
        THEN LET existing == FactAt(db, existing_handle)
             IN  IF EquivalentKind(existing.kind, fact.kind)
                 THEN Unchanged(db, existing_handle)
                 ELSE IF IsContradiction(fact.kind)
                 THEN Integrated(PushAndStore(db, fact), Len(db.facts))
                 ELSE IF IsContradiction(existing.kind)
                 THEN IntegrateIntoContradiction(db, fact, existing_handle)
                 ELSE IntegrateClash(db, fact, existing_handle)
        ELSE Integrated(PushAndStore(db, fact), Len(db.facts))

\* A variant that lets every result through.
ExpectAnything(r) == "Ok"

\* SingleFactIntegrationResult::expect_without_contradiction: Err for a handle,
\* Unchanged or Integrated, that denotes a Contradiction.
ExpectWithoutContradiction(r) ==
    IF IsContradiction(FactAt(r.db, r.handle).kind) THEN "Err" ELSE "Ok"

----------------------------------------------------------------------------
\* Views (fact_solver/view.rs): the same uniqueness pass runs over the lines
\* of a RunePosition (its Activations) and of an Activation (its RunePositions).

ViewRunePosition == "RunePosition"
ViewActivation == "Activation"

\* The indices of a view, and of its Complement, in iteration order.
ViewCount(T) == IF T = ViewRunePosition THEN NumRunes ELSE NumActivations
ComplementCount(T) == IF T = ViewRunePosition THEN NumActivations ELSE NumRunes

ChoosePosition(T, s, c) == IF T = ViewRunePosition THEN s ELSE c
ChooseActivation(T, s, c) == IF T = ViewRunePosition THEN c ELSE s

\* The handle and kind of the cell of line `view` at index `complement`.
LaneHandle(db, T, view, complement) ==
    Lookup(db, ChoosePosition(T, view, complement), ChooseActivation(T, view, complement))
LaneKind(db, T, view, complement) ==
    KindAt(db, ChoosePosition(T, view, complement), ChooseActivation(T, view, complement))

\* The indices 0 .. n-1 of an enumerate(), in increasing order.
Indices(n) == [i \in 1 .. n |-> i - 1]

\* complements.iter().enumerate().find_map(..): the first MustBe cell of the line.
MustBeComplements(db, T, view) ==
    SelectSeq(Indices(ComplementCount(T)), LAMBDA c : LaneKind(db, T, view, c) = MustBe)

\* The cells of the line that hold no fact (possibility.add(complement)).
OpenComplements(db, T, view) ==
    SelectSeq(Indices(ComplementCount(T)), LAMBDA c : LaneHandle(db, T, view, c) = None)

\* A variant that loses the reason of the line's last CannotBe cell.
CannotBeReasonsButLast(db, T, view) ==
    LET cs == SelectSeq(Indices(ComplementCount(T)), LAMBDA c : LaneKind(db, T, view, c) = CannotBe)
    IN  [i \in 1 .. (Len(cs) - 1) |->
            ReasonFact(LaneHandle(db, T, view, cs[i]),
                       "consolidate_views only_one_place_left")]

\* The reasons collected from the line's CannotBe cells, in lane order.
CannotBeReasons(db, T, view) ==
    LET cs == SelectSeq(Indices(ComplementCount(T)), LAMBDA c : LaneKind(db, T, view, c) = CannotBe)
    IN  [i \in 1 .. Len(cs) |->
            ReasonFact(LaneHandle(db, T, view, cs[i]),
                       "consolidate_views only_one_place_left")]

\* The facts one line contributes to `integrations`.
LaneIntegrations(db, T, view) ==
    LET must == MustBeComplements(db, T, view)
    IN  IF Len(must) > 0
        THEN LET must_be_complement == must[1]
                 must_be_fact == LaneHandle(db, T, view, must_be_complement)
                 others == SelectSeq(Indices(ComplementCount(T)),
                                     LAMBDA c : c # must_be_complement)
             IN  [i \in 1 .. Len(others) |->
                    Fact(CannotBe, ChoosePosition(T, view, others[i]),
                         ChooseActivation(T, view, others[i]),
                         << ReasonFact(must_be_fact, "consolidate_views must_be_fact") >>)]
        ELSE LET open == OpenComplements(db, T, view)
                 reasons == CannotBeReasons(db, T, view)
             IN  IF Len(open) = 1
                 THEN << Fact(MustBe, ChoosePosition(T, view, open[1]),
                              ChooseActivation(T, view, open[1]), reasons) >>
                 ELSE IF Len(open) = 0
                 THEN [i \in 1 .. ComplementCount(T) |->
                        Fact(NoOptionsLeft, ChoosePosition(T, view, i - 1),
                             ChooseActivation(T, view, i - 1), reasons)]
                 ELSE << >>

\* The integrations of the lines view, view + 1, ..., in lane order.
RECURSIVE UniqueIntegrationsFrom(_, _, _)
UniqueIntegrationsFrom(db, T, view) ==
    IF view >= ViewCount(T)
    THEN << >>
    ELSE LaneIntegrations(db, T, view) \o UniqueIntegrationsFrom(db, T, view + 1)

\* A variant whose enumeration of the lines starts one line late.
UniqueIntegrationsFromSecondLine(db, T) == UniqueIntegrationsFrom(db, T, 1)

UniqueIntegrations(db, T) == UniqueIntegrationsFrom(db, T, 0)

\* A variant that integrates the facts after the failing one as well before it
\* returns the Err.
RECURSIVE IntegrateFromToTheEnd(_, _, _, _)
IntegrateFromToTheEnd(db, integrations, i, result) ==
    IF i > Len(integrations)
    THEN [db |-> db, result |-> result, handle |-> None]
    ELSE LET r == IntegrateSingleFact(db, integrations[i])
             rest == IntegrateFromToTheEnd(r.db, integrations, i + 1, result)
         IN  IF ExpectWithoutContradiction(r) = "Err"
             THEN [db |-> rest.db, result |-> "Err", handle |-> r.handle]
             ELSE IF rest.result = "Err" THEN rest
             ELSE [rest EXCEPT !.result =
                        IF r.tag = "Integrated" THEN "Changes" ELSE rest.result]

\* integrate_consolidation from the i-th integration on: the first fact whose
\* integration denotes a Contradiction ends the loop with Err (the `?`).
RECURSIVE IntegrateFrom(_, _, _, _)
IntegrateFrom(db, integrations, i, result) ==
    IF i > Len(integrations)
    THEN [db |-> db, result |-> result, handle |-> None]
    ELSE LET r == IntegrateSingleFact(db, integrations[i])
         IN  IF ExpectWithoutContradiction(r) = "Err"
             THEN [db |-> r.db, result |-> "Err", handle |-> r.handle]
             ELSE IntegrateFrom(r.db, integrations, i + 1,
                                IF r.tag = "Integrated" THEN "Changes" ELSE result)

IntegrateConsolidation(db, integrations) ==
    IntegrateFrom(db, integrations, 1, "Unchanged")

ConsolidateUniquePerView(db, T) ==
    IntegrateConsolidation(db, UniqueIntegrations(db, T))

----------------------------------------------------------------------------
\* The constraint relations over two RunePositions (index.rs)

SANTOR == << 7, 5, 2, 0, 2, 5, 6, 4, 3, 1, 3, 4 >>
MAX_SANTOR == 7
MIN_SANTOR == 7

\* A variant that stays on the outer ring.
antiakian_conjugate_outer(self) == (self + 3) % 6

antiakian_conjugate(self) ==
    IF self < 6 THEN (self + 3) % 6 ELSE ((self + 3) % 6) + 6

\* Two variants: one asks for the same half-ring as well, one measures the
\* distance the other way round.
alwanese_of_twins(self, other) ==
    LET distance == (12 + self - other) % 6
    IN  (self < 6) = (other < 6) /\ distance <= 2 /\ distance > 0

alwanese_of_reversed(self, other) ==
    LET distance == (12 + other - self) % 6
    IN  distance <= 2 /\ distance > 0

\* (12 + self.0 - other.0).rem_euclid(6) within 1 ..= 2
alwanese_of(self, other) ==
    LET distance == (12 + self - other) % 6
    IN  distance <= 2 /\ distance > 0

alwanese_conjugate_of(self, other) == self % 6 = (other + 3) % 6

antakian_twins(self, other) == (self < 6) = (other < 6)

antakian_conjugate_of(self, other) ==
    antakian_twins(self, other) /\ alwanese_conjugate_of(self, other)

santor(self) == SANTOR[self + 1]

increases_santor(self, other) == santor(self) < santor(other)

max_0_conductive(self, two) ==
    IF antakian_twins(self, two)
    THEN (self + 1) % 6 = two % 6 \/ (two + 1) % 6 = self % 6
    ELSE (self + 6) % 12 = two

----------------------------------------------------------------------------
\* Activation (activation.rs) and Assignment (assignment.rs)

\* Activation::new(zero_based): Err(OutOfBounds) from 12 on.
ActivationInBounds(zero_based) == zero_based < 12

\* Activation::next: Activation::new(self.0 + 1); None stands for the Err.
ActivationNext(self) == IF ActivationInBounds(self + 1) THEN self + 1 ELSE None

AssignmentErr == [ok |-> FALSE]

\* Assignment::from_tuple_iter over a sequence of <<position, activation>>: the
\* Assignment holding exactly the given pairs in its two lookup arrays, an error
\* when two of the pairs share their RunePosition or their Activation.
AssignmentFromTupleIter(tuples) ==
    IF \E i, j \in 1 .. Len(tuples) :
            i # j /\ (tuples[i][1] = tuples[j][1] \/ tuples[i][2] = tuples[j][2])
    THEN AssignmentErr
    ELSE [ok |-> TRUE,
          activation_of_position |->
            [p \in 0 .. 11 |->
                IF \E i \in 1 .. Len(tuples) : tuples[i][1] = p
                THEN LET i == CHOOSE k \in 1 .. Len(tuples) : tuples[k][1] = p
                     IN  tuples[i][2]
                ELSE None],
          position_of_activation |->
            [a \in 0 .. 11 |->
                IF \E i \in 1 .. Len(tuples) : tuples[i][2] = a
                THEN LET i == CHOOSE k \in 1 .. Len(tuples) : tuples[k][2] = a
                     IN  tuples[i][1]
                ELSE None]]

\* Assignment::position_of
PositionOf(assignment, activation) == assignment.position_of_activation[activation]

\* Index<RunePosition> for Assignment
ActivationOn(assignment, position) == assignment.activation_of_position[position]

----------------------------------------------------------------------------
\* Rules (rule.rs) and the lock (main.rs)

Alwanese == "Alwanese"
AntakianConjugates == "AntakianConjugates"
AlwaneseConjugates == "AlwaneseConjugates"
DifferentRunes == "DifferentRunes"
AntakianTwins == "AntakianTwins"
IncreaseSantor == "IncreaseSantor"
RuneFollowsImmediately == "RuneFollowsImmediately"
Max0Conductive == "Max0Conductive"

\* A RuleKind: first and second are Activations, or Runes for RuneFollowsImmediately.
Rule(kind, first, second) == [kind |-> kind, first |-> first, second |-> second]

\* lock.runes[position]
RuneAt(lock, position) == lock.runes[position + 1]

\* A variant of the loop below that compares the Label of the next Value's
\* RunePosition with the rule's first Label.
RECURSIVE ValidateFollowsFromFirstLabel(_, _, _, _)
ValidateFollowsFromFirstLabel(rule, lock, assignment, position) ==
    IF position >= 12
    THEN "Ok"
    ELSE IF RuneAt(lock, position) = rule.first
            /\ ActivationOn(assignment, position) # None
    THEN LET next == ActivationNext(ActivationOn(assignment, position))
         IN  IF next = None
             THEN "Unfulfillable"
             ELSE IF PositionOf(assignment, next) # None
                     /\ RuneAt(lock, PositionOf(assignment, next)) # rule.first
             THEN "Violated"
             ELSE ValidateFollowsFromFirstLabel(rule, lock, assignment, position + 1)
    ELSE ValidateFollowsFromFirstLabel(rule, lock, assignment, position + 1)

\* The loop of the RuneFollowsImmediately arm from `position` on: the first
\* RunePosition that fails decides between Unfulfillable and Violated.
RECURSIVE ValidateFollowsFrom(_, _, _, _)
ValidateFollowsFrom(rule, lock, assignment, position) ==
    IF position >= 12
    THEN "Ok"
    ELSE IF RuneAt(lock, position) = rule.first
            /\ ActivationOn(assignment, position) # None
    THEN LET next == ActivationNext(ActivationOn(assignment, position))
         IN  IF next = None
             THEN "Unfulfillable"
             ELSE IF PositionOf(assignment, next) # None
                     /\ RuneAt(lock, PositionOf(assignment, next)) # rule.second
             THEN "Violated"
             ELSE ValidateFollowsFrom(rule, lock, assignment, position + 1)
    ELSE ValidateFollowsFrom(rule, lock, assignment, position + 1)

\* RuleKind::validate
Validate(rule, lock, assignment) ==
    IF rule.kind = RuneFollowsImmediately
    THEN ValidateFollowsFrom(rule, lock, assignment, 0)
    ELSE
    LET one == PositionOf(assignment, rule.first)
        two == PositionOf(assignment, rule.second)
        both == one # None /\ two # None
    IN  IF rule.kind = Alwanese
        THEN IF both /\ ~alwanese_of(two, one) THEN "Violated" ELSE "Ok"
        ELSE IF rule.kind = AntakianConjugates
        THEN IF one = None /\ two # None
                /\ ActivationOn(assignment, antiakian_conjugate(two)) # None
             THEN "Unfulfillable"
             ELSE IF one # None /\ two = None
                /\ ActivationOn(assignment, antiakian_conjugate(one)) # None
             THEN "Unfulfillable"
             ELSE IF both /\ ~antakian_conjugate_of(one, two)
             THEN "Violated"
             ELSE "Ok"
        ELSE IF rule.kind = AlwaneseConjugates
        THEN IF both /\ ~alwanese_conjugate_of(one, two) THEN "Violated" ELSE "Ok"
        ELSE IF rule.kind = DifferentRunes
        THEN IF both /\ RuneAt(lock, one) = RuneAt(lock, two) THEN "Violated" ELSE "Ok"
        ELSE IF rule.kind = AntakianTwins
        THEN IF both /\ ~antakian_twins(one, two) THEN "Violated" ELSE "Ok"
        ELSE IF rule.kind = IncreaseSantor
        THEN IF both /\ ~increases_santor(one, two)
             THEN "Violated"
             ELSE IF one # None /\ two = None /\ santor(one) = MAX_SANTOR
             THEN "Unfulfillable"
             ELSE IF one = None /\ two # None /\ santor(two) = MIN_SANTOR
             THEN "Unfulfillable"
             ELSE "Ok"
        ELSE \* Max0Conductive
             IF both /\ ~max_0_conductive(one, two) THEN "Violated" ELSE "Ok"

\* RuleKind::validate_tuple: a and b are <<position, activation>>.
ValidateTuple(rule, lock, a, b) ==
    LET fake_assignment == AssignmentFromTupleIter(<< a, b >>)
    IN  IF ~fake_assignment.ok
        THEN "InvalidAssignment"
        ELSE Validate(rule, lock, fake_assignment)

----------------------------------------------------------------------------
\* Rule propagation (fact_db.rs)

\* FactDb::givens: the MustBe cells in indexed_iter (row-major) order.
Givens(db) ==
    LET idx == SelectSeq(Indices(NumRunes * NumActivations),
                         LAMBDA k : KindAt(db, k \div NumActivations,
                                           k % NumActivations) = MustBe)
    IN  [i \in 1 .. Len(idx) |->
            [position |-> idx[i] \div NumActivations,
             activation |-> idx[i] % NumActivations,
             fact |-> Lookup(db, idx[i] \div NumActivations, idx[i] % NumActivations)]]

\* FactDb::possibilities_for: the complements of the line whose cell holds no
\* fact or a MustBe fact (a CannotBe or Contradiction cell is filtered out).
PossibilitiesFor(db, T, view) ==
    SelectSeq(Indices(ComplementCount(T)),
              LAMBDA c : LaneKind(db, T, view, c) \in {"Unknown", MustBe})

\* The CannotBe facts for the candidates of `other` that fail validate_tuple
\* against the given.
FailingCandidates(db, lock, given, rule_index, other, origin) ==
    LET rule == lock.rules[rule_index + 1]
        failing == SelectSeq(PossibilitiesFor(db, ViewActivation, other),
                             LAMBDA possibility :
                                ValidateTuple(rule, lock,
                                              << given.position, given.activation >>,
                                              << possibility, other >>) # "Ok")
    IN  [i \in 1 .. Len(failing) |->
            Fact(CannotBe, failing[i], other,
                 << ReasonFact(given.fact, origin), ReasonRule(rule_index) >>)]

\* A variant that propagates a two-Value rule from its first Value only.
RuleIntegrationsFromFirst(db, lock, given, rule_index) ==
    LET rule == lock.rules[rule_index + 1]
    IN  IF rule.kind = RuneFollowsImmediately
        THEN IF RuneAt(lock, given.position) = rule.first
             THEN LET affected_activation == ActivationNext(given.activation)
                  IN  IF affected_activation # None
                      THEN FailingCandidates(db, lock, given, rule_index,
                                             affected_activation,
                                             "consolidate_rules runes")
                      ELSE << Fact(CannotBe, given.position, given.activation,
                                   << ReasonFact(given.fact, "consolidate_rules runes"),
                                      ReasonRule(rule_index) >>) >>
             ELSE << >>
        ELSE IF rule.first = given.activation
             THEN FailingCandidates(db, lock, given, rule_index, rule.second,
                                    "consolidate_rules")
             ELSE << >>

\* What one rule contributes to `integrations` for one given.
RuleIntegrations(db, lock, given, rule_index) ==
    LET rule == lock.rules[rule_index + 1]
    IN  IF rule.kind = RuneFollowsImmediately
        THEN IF RuneAt(lock, given.position) = rule.first
             THEN LET affected_activation == ActivationNext(given.activation)
                  IN  IF affected_activation # None
                      THEN FailingCandidates(db, lock, given, rule_index,
                                             affected_activation,
                                             "consolidate_rules runes")
                      ELSE << Fact(CannotBe, given.position, given.activation,
                                   << ReasonFact(given.fact, "consolidate_rules runes"),
                                      ReasonRule(rule_index) >>) >>
             ELSE << >>
        ELSE (IF rule.first = given.activation
              THEN FailingCandidates(db, lock, given, rule_index, rule.second,
                                     "consolidate_rules")
              ELSE << >>)
             \o
             (IF rule.second = given.activation
              THEN FailingCandidates(db, lock, given, rule_index, rule.first,
                                     "consolidate_rules")
              ELSE << >>)

\* A variant that integrates what each rule derives before it turns to the next
\* rule, so that a later derivation sees the cells the earlier ones excluded.
RECURSIVE GivenIntegrationsSeeingEarlier(_, _, _, _)
GivenIntegrationsSeeingEarlier(db, lock, given, rule_index) ==
    IF rule_index >= Len(lock.rules)
    THEN << >>
    ELSE LET here == RuleIntegrations(db, lock, given, rule_index)
         IN  here \o GivenIntegrationsSeeingEarlier(IntegrateConsolidation(db, here).db,
                                                    lock, given, rule_index + 1)

RECURSIVE GivenIntegrationsFrom(_, _, _, _)
GivenIntegrationsFrom(db, lock, given, rule_index) ==
    IF rule_index >= Len(lock.rules)
    THEN << >>
    ELSE RuleIntegrations(db, lock, given, rule_index)
         \o GivenIntegrationsFrom(db, lock, given, rule_index + 1)

RECURSIVE RulesIntegrationsFrom(_, _, _, _)
RulesIntegrationsFrom(db, lock, givens, i) ==
    IF i > Len(givens)
    THEN << >>
    ELSE GivenIntegrationsFrom(db, lock, givens[i], 0)
         \o RulesIntegrationsFrom(db, lock, givens, i + 1)

RulesIntegrations(db, lock) == RulesIntegrationsFrom(db, lock, Givens(db), 1)

ConsolidateRules(db, lock) ==
    IntegrateConsolidation(db, RulesIntegrations(db, lock))

----------------------------------------------------------------------------
\* The locks the solver is run on: the runes of main.rs and a choice of rule
\* lists, among them no rule at all and the rule list of main.rs.

MainRunes == << 0, 2, 1, 3, 2, 1, 3, 2, 1, 0, 2, 1 >>

MainRules ==
    << Rule(Alwanese, 0, 1), Rule(AntakianConjugates, 1, 2), Rule(Alwanese, 2, 3),
       Rule(AlwaneseConjugates, 5, 6), Rule(AntakianConjugates, 5, 7),
       Rule(DifferentRunes, 6, 7), Rule(Alwanese, 8, 9),
       Rule(IncreaseSantor, 9, 10), Rule(IncreaseSantor, 10, 11),
       Rule(AntakianTwins, 7, 9), Rule(Max0Conductive, 0, 11),
       Rule(RuneFollowsImmediately, 0, 1) >>

RuleLists ==
    { << >>,
      << Rule(AntakianConjugates, 0, 1), Rule(AntakianConjugates, 0, 2) >>,
      << Rule(IncreaseSantor, 0, 1), Rule(AntakianConjugates, 0, 2) >>,
      MainRules }

Locks == { [runes |-> MainRunes, rules |-> rules] : rules \in RuleLists }

\* The lock of main.rs.
MainLock == [runes |-> MainRunes, rules |-> MainRules]

----------------------------------------------------------------------------
\* The assumption tree (assumption_tree.rs) and FactualSolver (mod.rs)

SolverActionRoot == [kind |-> "Root", position |-> None, activation |-> None]
SolverActionAssume(position, activation) ==
    [kind |-> "Assume", position |-> position, activation |-> activation]

Unexplored == [kind |-> "Unexplored", fact |-> None]
Contradicts(handle) == [kind |-> "Contradicts", fact |-> handle]

\* AssumptionTreeNode<FactSolverState>, its data flattened into the node.
TreeNode(parent, facts, action, state) ==
    [parent |-> parent, facts |-> facts, action |-> action, state |-> state,
     children |-> << >>]

\* self.states[handle]: node handles are 0-based indices into the arena.
NodeAt(tree, handle) == tree[handle + 1]

\* AssumptionTree::new
AssumptionTreeNew == << TreeNode(None, FactDbNew, SolverActionRoot, Unexplored) >>

\* Variants of insert_child: the child is attached to the root whatever the
\* parent; the parent shares the child's data instead of keeping its own.
InsertChildUnderRoot(tree, parent, child) ==
    LET pushed == Append(tree, [child EXCEPT !.parent = 0])
        child_handle == Len(pushed) - 1
    IN  [pushed EXCEPT ![1].children = Append(@, child_handle)]

InsertChildSharingData(tree, parent, child) ==
    LET pushed == Append(tree, child)
        child_handle == Len(pushed) - 1
    IN  [pushed EXCEPT ![parent + 1].children = Append(@, child_handle),
                       ![parent + 1].facts = child.facts]

\* A variant that pushes the child without listing it in its parent's children.
InsertChildUnlisted(tree, parent, child) == Append(tree, child)

\* AssumptionTree::insert_child: the new node is pushed, then its handle is
\* pushed to the parent's children.
InsertChild(tree, parent, child) ==
    LET pushed == Append(tree, child)
        child_handle == Len(pushed) - 1
    IN  [pushed EXCEPT ![parent + 1].children = Append(@, child_handle)]

\* A variant of get_handle whose bound test is off by one.
GetHandleUpToLen(tree, node) ==
    IF node > Len(tree)
    THEN [ok |-> FALSE, handle |-> None, error |-> "UnknownNode"]
    ELSE [ok |-> TRUE, handle |-> node, error |-> ""]

\* AssumptionTree::get_handle: Err(UnknownNode(node)) from nodes.len() on.
GetHandle(tree, node) ==
    IF node >= Len(tree)
    THEN [ok |-> FALSE, handle |-> None, error |-> "UnknownNode"]
    ELSE [ok |-> TRUE, handle |-> node, error |-> ""]

----------------------------------------------------------------------------
\* The legacy solver's state (solver/field_state.rs, solver/solver_state.rs,
\* solver_nodes.rs)

\* FieldState
FieldUnsure(possibilities) ==
    [tag |-> "Unsure", possibilities |-> possibilities, activation |-> None]
FieldAssumed(activation) ==
    [tag |-> "Assumed", possibilities |-> {}, activation |-> activation]
FieldDeduced(activation) ==
    [tag |-> "Deduced", possibilities |-> {}, activation |-> activation]

\* FieldState::default: every Activation is possible.
FieldStateDefault == FieldUnsure(Activations)

\* SolverState::default, as its array of twelve FieldStates.
SolverStateDefault == [position \in Positions |-> FieldStateDefault]

\* SolverNodeAction
SolverNodeActionRoot == [kind |-> "Root", position |-> None, activation |-> None]
SolverNodeActionAssume(position, activation) ==
    [kind |-> "Assume", position |-> position, activation |-> activation]

\* SolverNode with its SolverNodeData.
SolverNode(parent, state, deduction_chain, action) ==
    [parent |-> parent, state |-> state, deduction_chain |-> deduction_chain,
     action |-> action, children |-> << >>]

\* SolverNodes::new
SolverNodesNew ==
    << SolverNode(None, "Alive", << SolverStateDefault >>, SolverNodeActionRoot) >>

\* Solver::new; result is what the last call returned, and calls counts the
\* try_activation and try_in_position calls made so far.
SolverNew == [nodes |-> SolverNodesNew, current |-> 0, result |-> "None", calls |-> 0]

VARIABLES
    lock,           \* the RuneLock the solver was built on
    nodes,          \* FactualSolver.states: the arena of tree nodes
    current,        \* FactualSolver.current: the cursor
    pc,             \* where the running command stands
    derived_facts,  \* assume's working copy of the database
    changed,        \* integrate_and_consolidate's loop flag
    assumption,     \* the position and activation of the running assume
    possibilities,  \* try_possibilities: the candidates still to assume
    try_current,    \* try_possibilities: the cursor it restores, or None
    text,           \* the line last handed to SolverCommand::parse
    parsed,         \* what SolverCommand::parse made of it
    self_position,  \* the RunePosition the relations of index.rs are called on
    other_position, \* the RunePosition they are given
    the_assignment, \* an Assignment built by Assignment::assign
    writes,         \* how many writes through index_mut it has received
    legacy          \* the legacy Solver: its nodes, its cursor, its last result

vars == << lock, nodes, current, pc, derived_facts, changed, assumption,
           possibilities, try_current, text, parsed, self_position,
           other_position, the_assignment, writes, legacy >>

\* The state of the solver, and the state of the parts exercised on their own.
solver_vars == << lock, nodes, current, pc, derived_facts, changed, assumption,
                 possibilities, try_current >>
index_vars == << self_position, other_position >>
unit_vars == << text, parsed, self_position, other_position, the_assignment,
               writes, legacy >>

NoAssumption == [position |-> None, activation |-> None]

\* No line has been parsed yet.
NoText == [command |-> "", args |-> << >>]
NoCommand == [tag |-> "None"]

\* Assignment::new([None; 12])
AssignmentNew ==
    [ok |-> TRUE,
     activation_of_position |-> [p \in 0 .. 11 |-> None],
     position_of_activation |-> [a \in 0 .. 11 |-> None]]

InitSolver ==
    /\ lock \in Locks
    /\ nodes = AssumptionTreeNew
    /\ current = 0
    /\ pc = "idle"
    /\ derived_facts = FactDbNew
    /\ changed = FALSE
    /\ assumption = NoAssumption
    /\ possibilities = << >>
    /\ try_current = None

\* Nothing has been parsed, related or assigned.
InitUnits ==
    /\ text = NoText
    /\ parsed = NoCommand
    /\ self_position = 0
    /\ other_position = 0
    /\ the_assignment = AssignmentNew
    /\ writes = 0
    /\ legacy = SolverNew

Init == InitSolver /\ InitUnits

\* The solver freshly built on the lock of main.rs.
InitMainLock == Init /\ lock = MainLock

\* The end of assume: the child is inserted under the cursor and the cursor moves
\* to it; inside try_possibilities the cursor is then set back, and the loop goes
\* on with the next candidate.
FinishAssume(db, state, position, activation, rest) ==
    /\ nodes' = InsertChild(nodes, current,
                            TreeNode(current, db,
                                     SolverActionAssume(position, activation), state))
    /\ current' = IF try_current # None THEN try_current ELSE Len(nodes)
    /\ derived_facts' = db
    /\ changed' = FALSE
    /\ assumption' = NoAssumption
    /\ possibilities' = rest
    /\ pc' = IF try_current # None /\ rest # << >> THEN "try" ELSE "idle"

\* The start of assume: the cursor's database is cloned and the Assumption-tagged
\* MustBe fact is integrated (integrate_and_consolidate up to its loop).
BeginAssume(activation, position, rest) ==
    LET r == IntegrateSingleFact(NodeAt(nodes, current).facts,
                                 Fact(MustBe, position, activation,
                                      << ReasonAssumption >>))
    IN  IF ExpectWithoutContradiction(r) = "Err"
        THEN FinishAssume(r.db, Contradicts(r.handle), position, activation, rest)
        ELSE IF r.tag = "Unchanged"
        THEN FinishAssume(r.db, Unexplored, position, activation, rest)
        ELSE /\ derived_facts' = r.db
             /\ changed' = FALSE
             /\ assumption' = [position |-> position, activation |-> activation]
             /\ possibilities' = rest
             /\ pc' = "unique_position"
             /\ UNCHANGED << nodes, current >>

\* FactualSolver::assume(activation, position)
Assume(activation, position) ==
    /\ pc = "idle"
    /\ Len(nodes) < MaxNodes
    /\ BeginAssume(activation, position, << >>)
    /\ UNCHANGED << lock, try_current >>
    /\ UNCHANGED unit_vars

\* The loop body of integrate_and_consolidate, first sub-pass.
StepUniquePosition ==
    /\ pc = "unique_position"
    /\ LET r == ConsolidateUniquePerView(derived_facts, ViewRunePosition)
       IN  IF r.result = "Err"
           THEN FinishAssume(r.db, Contradicts(r.handle), assumption.position,
                             assumption.activation, possibilities)
           ELSE /\ derived_facts' = r.db
                /\ changed' = (r.result = "Changes")
                /\ pc' = "unique_activation"
                /\ UNCHANGED << nodes, current, assumption, possibilities >>
    /\ try_current' = IF pc' = "idle" THEN None ELSE try_current
    /\ UNCHANGED lock
    /\ UNCHANGED unit_vars

\* Second sub-pass.
StepUniqueActivation ==
    /\ pc = "unique_activation"
    /\ LET r == ConsolidateUniquePerView(derived_facts, ViewActivation)
       IN  IF r.result = "Err"
           THEN FinishAssume(r.db, Contradicts(r.handle), assumption.position,
                             assumption.activation, possibilities)
           ELSE /\ derived_facts' = r.db
                /\ changed' = (changed \/ r.result = "Changes")
                /\ pc' = "rules"
                /\ UNCHANGED << nodes, current, assumption, possibilities >>
    /\ try_current' = IF pc' = "idle" THEN None ELSE try_current
    /\ UNCHANGED lock
    /\ UNCHANGED unit_vars

\* A variant of StepRules whose exit test looks at the rules sub-pass alone.
StepRulesOnce ==
    /\ pc = "rules"
    /\ LET r == ConsolidateRules(derived_facts, lock)
       IN  IF r.result = "Err"
           THEN FinishAssume(r.db, Contradicts(r.handle), assumption.position,
                             assumption.activation, possibilities)
           ELSE IF r.result = "Changes"
           THEN /\ derived_facts' = r.db
                /\ changed' = FALSE
                /\ pc' = "unique_position"
                /\ UNCHANGED << nodes, current, assumption, possibilities >>
           ELSE FinishAssume(r.db, Unexplored, assumption.position,
                             assumption.activation, possibilities)
    /\ try_current' = IF pc' = "idle" THEN None ELSE try_current
    /\ UNCHANGED lock
    /\ UNCHANGED unit_vars

\* Third sub-pass and the loop's exit test: another pass when anything changed.
StepRules ==
    /\ pc = "rules"
    /\ LET r == ConsolidateRules(derived_facts, lock)
       IN  IF r.result = "Err"
           THEN FinishAssume(r.db, Contradicts(r.handle), assumption.position,
                             assumption.activation, possibilities)
           ELSE IF changed \/ r.result = "Changes"
           THEN /\ derived_facts' = r.db
                /\ changed' = FALSE
                /\ pc' = "unique_position"
                /\ UNCHANGED << nodes, current, assumption, possibilities >>
           ELSE FinishAssume(r.db, Unexplored, assumption.position,
                             assumption.activation, possibilities)
    /\ try_current' = IF pc' = "idle" THEN None ELSE try_current
    /\ UNCHANGED lock
    /\ UNCHANGED unit_vars

\* FactualSolver::try_possibilities(it): the candidates are collected from the
\* cursor's database before the first assume.
TryPossibilities(T, it) ==
    /\ pc = "idle"
    /\ LET found == PossibilitiesFor(NodeAt(nodes, current).facts, T, it)
       IN  /\ Len(found) > 0
           /\ Len(found) <= MaxTry
           /\ Len(nodes) < MaxNodes
           /\ possibilities' =
                [i \in 1 .. Len(found) |->
                    [activation |-> ChooseActivation(T, it, found[i]),
                     position |-> ChoosePosition(T, it, found[i])]]
    /\ try_current' = current
    /\ pc' = "try"
    /\ UNCHANGED << lock, nodes, current, derived_facts, changed, assumption >>
    /\ UNCHANGED unit_vars

\* One iteration of try_possibilities' loop: assume the next candidate.
TryNext ==
    /\ pc = "try"
    /\ BeginAssume(Head(possibilities).activation, Head(possibilities).position,
                   Tail(possibilities))
    /\ try_current' = IF pc' = "idle" THEN None ELSE try_current
    /\ UNCHANGED lock
    /\ UNCHANGED unit_vars

\* get_tree_handle(node_id) followed, when it returns a handle, by set_current:
\* the View command. An unknown node is reported and nothing changes.
SetCurrent(node_id) ==
    /\ pc = "idle"
    /\ current' = IF GetHandle(nodes, node_id).ok
                  THEN GetHandle(nodes, node_id).handle
                  ELSE current
    /\ UNCHANGED << lock, nodes, pc, derived_facts, changed, assumption,
                    possibilities, try_current >>
    /\ UNCHANGED unit_vars

\* The public operations of FactualSolver that change it (assume,
\* try_possibilities, and get_tree_handle with set_current), called in any
\* order on the solver FactualSolver::new built.  The main function of
\* main.rs does not call them: it drives the legacy Solver.
Next ==
    \/ \E position \in 0 .. MaxPosition, activation \in 0 .. MaxActivation :
            Assume(activation, position)
    \/ StepUniquePosition
    \/ StepUniqueActivation
    \/ StepRules
    \/ \E position \in 0 .. MaxPosition : TryPossibilities(ViewRunePosition, position)
    \/ \E activation \in 0 .. MaxActivation : TryPossibilities(ViewActivation, activation)
    \/ TryNext
    \/ \E node_id \in 0 .. MaxNodes : SetCurrent(node_id)

Spec == Init /\ [][Next]_vars

\* The first command only, for every cell of the grid: assume from the root.
AssumeFromRoot(activation, position) ==
    /\ Len(nodes) = 1
    /\ Assume(activation, position)

NextFirstAssume ==
    \/ \E position \in Positions, activation \in Activations :
            AssumeFromRoot(activation, position)
    \/ StepUniquePosition
    \/ StepUniqueActivation
    \/ StepRules

SpecFirstAssume == Init /\ [][NextFirstAssume]_vars

\* Two commands: an assume from the root with the RunePositions and Activations
\* of the bounds, then an assume from its child for every cell of the grid.
AssumeFromChild(activation, position) ==
    /\ Len(nodes) = 2
    /\ Assume(activation, position)

NextSecondAssume ==
    \/ \E position \in 0 .. MaxPosition, activation \in 0 .. MaxActivation :
            AssumeFromRoot(activation, position)
    \/ \E position \in Positions, activation \in Activations :
            AssumeFromChild(activation, position)
    \/ StepUniquePosition
    \/ StepUniqueActivation
    \/ StepRules

SpecSecondAssume == Init /\ [][NextSecondAssume]_vars

----------------------------------------------------------------------------
\* Vocabulary of the properties

NonRootNodes == 1 .. (Len(nodes) - 1)

\* A command is running inside integrate_and_consolidate's loop.
Consolidating == pc \in {"unique_position", "unique_activation", "rules"}

\* The step is one of integrate_and_consolidate: the integration of the assumed
\* fact into the cursor's clone, or one sub-pass over the working copy. A node's
\* database is its parent's after the steps of one call.
CallStep == pc' \in {"unique_position", "unique_activation", "rules"}
                \/ Len(nodes') > Len(nodes)

\* The database the step works on, as the step finds it and as it leaves it.
Before == IF Consolidating THEN derived_facts ELSE NodeAt(nodes, current).facts
After == derived_facts'

Handles(db) == 0 .. (Len(db.facts) - 1)

\* FactDb::fixed_assignment: the Assignment of the givens.
FixedAssignment(db) ==
    LET givens == Givens(db)
    IN  AssignmentFromTupleIter([i \in 1 .. Len(givens) |->
                                    << givens[i].position, givens[i].activation >>])

\* The handles cited as FactReason::Fact by the fact of handle h.
CitedFacts(db, h) ==
    { FactAt(db, h).reasons[i].ref :
        i \in { j \in 1 .. Len(FactAt(db, h).reasons) :
                    FactAt(db, h).reasons[j].tag = "Fact" } }

\* The node of handle n, its database, and the cell its assume was aimed at.
Node(n) == NodeAt(nodes, n)
ParentDb(n) == NodeAt(nodes, Node(n).parent).facts
Alive(n) == Node(n).state = Unexplored

----------------------------------------------------------------------------
\* C1: once the current fact of a cell is a Contradiction, no later operation
\* changes the handle stored in that cell: every step of
\* integrate_and_consolidate leaves in a cell that held a Contradiction the
\* handle it found there.
C1_ContradictionIsAbsorbing ==
    [][ CallStep =>
            \A cell \in Cells :
                IsContradiction(KindAt(Before, cell[1], cell[2]))
                    => Lookup(After, cell[1], cell[2]) = Lookup(Before, cell[1], cell[2])
      ]_vars

\* A node was created by assuming into a cell that held a Contradiction.
C1_Witness ==
    \E n \in NonRootNodes :
        IsContradiction(KindAt(ParentDb(n), Node(n).action.position,
                               Node(n).action.activation))

----------------------------------------------------------------------------
\* No Value is MustBe at two Slots and no Slot is MustBe for two Values.
InjectiveGivens(db) ==
    \A i, j \in 1 .. Len(Givens(db)) :
        i # j => /\ Givens(db)[i].position # Givens(db)[j].position
                 /\ Givens(db)[i].activation # Givens(db)[j].activation

\* C2 (as stated): whenever integrate_and_consolidate returned success, so that
\* the node is Alive, fixed_assignment() succeeds on the node's database: no
\* Value is MustBe at two Slots and no Slot is MustBe for two Values.
C2_SuccessHasFixedAssignment ==
    \A n \in NonRootNodes : Alive(n) => InjectiveGivens(Node(n).facts)

----------------------------------------------------------------------------
\* One further full pass over db: the three sub-passes in order, stopping at the
\* first contradiction.
FurtherPass(db, rules_lock) ==
    LET p == ConsolidateUniquePerView(db, ViewRunePosition)
    IN  IF p.result = "Err" THEN p
        ELSE LET a == ConsolidateUniquePerView(p.db, ViewActivation)
             IN  IF a.result = "Err" THEN a
                 ELSE LET r == ConsolidateRules(a.db, rules_lock)
                      IN  IF r.result = "Err" THEN r
                          ELSE [r EXCEPT !.result =
                                    IF "Changes" \in {p.result, a.result, r.result}
                                    THEN "Changes" ELSE "Unchanged"]

\* C3 (as stated): after integrate_and_consolidate returned success the
\* database is a fixed point: one further full pass integrates no new fact, and
\* submitting the assumed fact again leaves grid and log unchanged and is no
\* failure.
C3_SuccessIsFixedPoint ==
    \A n \in NonRootNodes :
        Alive(n) =>
            /\ LET again == FurtherPass(Node(n).facts, lock)
               IN  again.result = "Unchanged" /\ again.db = Node(n).facts
            /\ LET r == IntegrateSingleFact(Node(n).facts,
                            Fact(MustBe, Node(n).action.position,
                                 Node(n).action.activation, << ReasonAssumption >>))
               IN  r.tag = "Unchanged" /\ r.db = Node(n).facts

----------------------------------------------------------------------------
\* C4: with the empty rule list, assuming Value v at Slot s from the root gives
\* an Alive child in which (s, v) is MustBe justified by the Assumption alone,
\* every (s, v') with v' # v and every (s', v) with s' # s is CannotBe, every
\* other cell holds no fact, and the log holds no Contradiction.
C4_FirstAssumeWithoutRules ==
    \A n \in NonRootNodes :
        (lock.rules = << >> /\ Node(n).parent = 0) =>
            LET db == Node(n).facts
                s == Node(n).action.position
                v == Node(n).action.activation
            IN  /\ Alive(n)
                /\ KindAt(db, s, v) = MustBe
                /\ FactAt(db, Lookup(db, s, v)).reasons = << ReasonAssumption >>
                /\ \A cell \in Cells :
                        KindAt(db, cell[1], cell[2]) =
                            IF cell = << s, v >> THEN MustBe
                            ELSE IF cell[1] = s \/ cell[2] = v THEN CannotBe
                            ELSE "Unknown"
                /\ \A h \in Handles(db) : ~IsContradiction(FactAt(db, h).kind)

\* The first assume, aimed at the grid's last cell, has finished on a lock
\* without rules.
C4_Witness ==
    /\ lock.rules = << >>
    /\ Len(nodes) = 2
    /\ Node(1).action = SolverActionAssume(NumRunes - 1, NumActivations - 1)

----------------------------------------------------------------------------
\* Node second was made by assuming, from node first, another Value at the Slot
\* that first's own assume was aimed at.
SecondValueAtSlot(first, second) ==
    /\ first \in NonRootNodes
    /\ second \in NonRootNodes
    /\ Node(second).parent = first
    /\ Node(second).action.position = Node(first).action.position
    /\ Node(second).action.activation # Node(first).action.activation

\* Fact h of db is the Assumption-tagged MustBe fact for (position, activation).
AssumptionFact(db, h, position, activation) ==
    /\ h \in Handles(db)
    /\ FactAt(db, h) = Fact(MustBe, position, activation, << ReasonAssumption >>)

\* C5 (as stated): when Value A is assumed at Slot S and then, from the
\* resulting node, Value B # A at S, the second child is Contradicted with a
\* ContradictingRequirements fact whose justifications cite both
\* Assumption-tagged MustBe facts, the one for (S, A) and the one for (S, B).
C5_CitesBothAssumptions ==
    \A first, second \in NonRootNodes :
        SecondValueAtSlot(first, second) =>
            LET db == Node(second).facts
                h == Node(second).state.fact
                S == Node(first).action.position
            IN  /\ Node(second).state.kind = "Contradicts"
                /\ FactAt(db, h).kind = ContradictingRequirements
                /\ \E a, b \in CitedFacts(db, h) :
                        /\ CitedFacts(db, h) = {a, b}
                        /\ AssumptionFact(db, a, S, Node(first).action.activation)
                        /\ AssumptionFact(db, b, S, Node(second).action.activation)

\* C5 (amended): when cell (S, B) of the first child holds a CannotBe fact, the
\* second child is Contradicted with a ContradictingRequirements fact for
\* (S, B) whose justifications are that CannotBe fact and the new
\* Assumption-tagged MustBe fact for (S, B), in this order; when the first
\* assume was made from the root, the CannotBe fact is justified by the
\* Assumption-tagged MustBe fact for (S, A) alone.
C5_CitesCannotBeAndAssumption ==
    \A first, second \in NonRootNodes :
        (/\ SecondValueAtSlot(first, second)
         /\ KindAt(Node(first).facts, Node(first).action.position,
                   Node(second).action.activation) = CannotBe) =>
            LET db == Node(second).facts
                h == Node(second).state.fact
                S == Node(first).action.position
                A == Node(first).action.activation
                B == Node(second).action.activation
                cannot_be == Lookup(Node(first).facts, S, B)
            IN  /\ Node(second).state.kind = "Contradicts"
                /\ FactAt(db, h).kind = ContradictingRequirements
                /\ FactAt(db, h).position = S
                /\ FactAt(db, h).activation = B
                /\ Len(FactAt(db, h).reasons) = 2
                /\ FactAt(db, h).reasons[1].tag = "Fact"
                /\ FactAt(db, h).reasons[1].ref = cannot_be
                /\ FactAt(db, cannot_be) = FactAt(Node(first).facts, cannot_be)
                /\ FactAt(db, h).reasons[2].tag = "Fact"
                /\ AssumptionFact(db, FactAt(db, h).reasons[2].ref, S, B)
                /\ Node(first).parent = 0 =>
                        /\ Len(FactAt(db, cannot_be).reasons) = 1
                        /\ FactAt(db, cannot_be).reasons[1].tag = "Fact"
                        /\ AssumptionFact(db, FactAt(db, cannot_be).reasons[1].ref, S, A)

\* A second Value was assumed at the Slot of a first assume made from the root,
\* into a cell that held a CannotBe fact.
C5_Witness ==
    \E first, second \in NonRootNodes :
        /\ SecondValueAtSlot(first, second)
        /\ Node(first).parent = 0
        /\ KindAt(Node(first).facts, Node(first).action.position,
                  Node(second).action.activation) = CannotBe

----------------------------------------------------------------------------
Views == {ViewRunePosition, ViewActivation}

\* The value of pc at which the uniqueness sub-pass of view type T is due.
SubPassOf(T) == IF T = ViewRunePosition THEN "unique_position" ELSE "unique_activation"

\* The index of the line of view type T on which a fact lies.
LineOf(T, fact) == IF T = ViewRunePosition THEN fact.position ELSE fact.activation

\* The complements of the line whose cell holds a CannotBe fact.
CannotBeComplements(db, T, view) ==
    { c \in 0 .. (ComplementCount(T) - 1) : LaneKind(db, T, view, c) = CannotBe }

\* Every cell of the line is CannotBe except exactly one, which holds no fact.
OnePlaceLeft(db, T, view) ==
    /\ Len(OpenComplements(db, T, view)) = 1
    /\ Cardinality(CannotBeComplements(db, T, view)) = ComplementCount(T) - 1

\* In `after` the line's open cell of `before` holds a MustBe fact justified by
\* exactly the CannotBe facts of the line's other cells.
OnePlaceDerived(before, after, T, view) ==
    LET c == OpenComplements(before, T, view)[1]
        h == LaneHandle(after, T, view, c)
    IN  /\ h # None
        /\ FactAt(after, h).kind = MustBe
        /\ FactAt(after, h).position = ChoosePosition(T, view, c)
        /\ FactAt(after, h).activation = ChooseActivation(T, view, c)
        /\ Len(FactAt(after, h).reasons) = ComplementCount(T) - 1
        /\ \A i \in 1 .. Len(FactAt(after, h).reasons) :
                FactAt(after, h).reasons[i].tag = "Fact"
        /\ CitedFacts(after, h) =
                { LaneHandle(before, T, view, o) : o \in CannotBeComplements(before, T, view) }

\* The step ends the call with a contradiction on a line of index below view.
EndedOnEarlierLine(T, view) ==
    /\ Len(nodes') = Len(nodes) + 1
    /\ NodeAt(nodes', Len(nodes)).state.kind = "Contradicts"
    /\ LineOf(T, FactAt(derived_facts', NodeAt(nodes', Len(nodes)).state.fact)) < view

\* C6 (as stated): when a line has every cell CannotBe except exactly one cell
\* with no fact, the uniqueness sub-pass over that line derives MustBe for the
\* remaining cell, justified by exactly the CannotBe facts of the other cells.
C6_OnePlaceLeftIsDerived ==
    [][ \A T \in Views : \A view \in 0 .. (ViewCount(T) - 1) :
            (pc = SubPassOf(T) /\ OnePlaceLeft(derived_facts, T, view))
                => OnePlaceDerived(derived_facts, derived_facts', T, view) ]_vars

\* C6 (amended): the same, unless the sub-pass is ended by a contradiction on a
\* line of lower index, in which case the remaining cell stays without a fact.
C6_OnePlaceLeftIsDerivedUnlessEnded ==
    [][ \A T \in Views : \A view \in 0 .. (ViewCount(T) - 1) :
            (pc = SubPassOf(T) /\ OnePlaceLeft(derived_facts, T, view))
                => IF EndedOnEarlierLine(T, view)
                   THEN LaneHandle(derived_facts', T, view,
                                   OpenComplements(derived_facts, T, view)[1]) = None
                   ELSE OnePlaceDerived(derived_facts, derived_facts', T, view) ]_vars

\* A cell's current fact is a MustBe fact derived from the CannotBe facts of
\* all the other cells of its line.
C6_Witness ==
    \E cell \in Cells :
        /\ KindAt(derived_facts, cell[1], cell[2]) = MustBe
        /\ LET reasons == FactAt(derived_facts,
                                 Lookup(derived_facts, cell[1], cell[2])).reasons
           IN  /\ Len(reasons) = NumRunes - 1
               /\ \A i \in 1 .. Len(reasons) :
                    reasons[i].origin = "consolidate_views only_one_place_left"

----------------------------------------------------------------------------
\* The line has no cell without a fact and no MustBe cell.
NoPlaceLeft(db, T, view) ==
    /\ Len(OpenComplements(db, T, view)) = 0
    /\ Len(MustBeComplements(db, T, view)) = 0

\* C7 (as stated): when a line has no cell without a fact and no MustBe cell,
\* the uniqueness sub-pass over it returns a contradiction, and when it returns
\* every cell of the line holds a NoOptionsLeft fact justified by the line's
\* CannotBe facts.
C7_NoPlaceLeftMarksEveryCell ==
    [][ \A T \in Views : \A view \in 0 .. (ViewCount(T) - 1) :
            (pc = SubPassOf(T) /\ NoPlaceLeft(derived_facts, T, view))
                => /\ Len(nodes') = Len(nodes) + 1
                   /\ NodeAt(nodes', Len(nodes)).state.kind = "Contradicts"
                   /\ \A c \in 0 .. (ComplementCount(T) - 1) :
                        /\ LaneKind(derived_facts', T, view, c) = NoOptionsLeft
                        /\ CitedFacts(derived_facts', LaneHandle(derived_facts', T, view, c))
                             = { LaneHandle(derived_facts, T, view, o) :
                                    o \in CannotBeComplements(derived_facts, T, view) } ]_vars

----------------------------------------------------------------------------
\* C8 (as stated): when a MustBe fact is integrated into a CannotBe cell, or a
\* CannotBe fact into a MustBe cell, a ContradictingRequirements fact is
\* created whose justifications are exactly the two colliding facts, and
\* afterwards the cell's current fact is this Contradiction: a node that
\* Contradicts with such a fact holds it in the fact's cell.
C8_ClashIsStoredInCell ==
    \A n \in NonRootNodes :
        LET db == Node(n).facts
            h == Node(n).state.fact
        IN  (Node(n).state.kind = "Contradicts"
                /\ FactAt(db, h).kind = ContradictingRequirements) =>
                /\ Len(FactAt(db, h).reasons) = 2
                /\ \A r \in CitedFacts(db, h) :
                        /\ FactAt(db, r).position = FactAt(db, h).position
                        /\ FactAt(db, r).activation = FactAt(db, h).activation
                /\ { FactAt(db, r).kind : r \in CitedFacts(db, h) } = {MustBe, CannotBe}
                /\ Lookup(db, FactAt(db, h).position, FactAt(db, h).activation) = h

----------------------------------------------------------------------------
\* The lattice Unknown < {MustBe, CannotBe} < Contradiction over the kinds of
\* a cell's current fact.
Rank(kind) ==
    IF kind = "Unknown" THEN 0
    ELSE IF IsContradiction(kind) THEN 2
    ELSE 1

KindLeq(a, b) == a = b \/ Rank(a) < Rank(b)

\* C9: the kind of each cell's current fact only moves up the lattice
\* Unknown < {MustBe, CannotBe} < Contradiction: in no step of
\* integrate_and_consolidate does a cell go from MustBe to CannotBe or back,
\* leave Contradiction, or lose its fact.
C9_KindsOnlyMoveUp ==
    [][ CallStep =>
            \A cell \in Cells :
                KindLeq(KindAt(Before, cell[1], cell[2]), KindAt(After, cell[1], cell[2]))
      ]_vars

\* A cell rose from CannotBe to Contradiction: its NoOptionsLeft fact cites the
\* CannotBe fact that it replaced; and the same database holds a MustBe cell.
C9_Witness ==
    \E n \in NonRootNodes : \E cell \in Cells :
        LET db == Node(n).facts
        IN  /\ KindAt(db, cell[1], cell[2]) = NoOptionsLeft
            /\ \E r \in CitedFacts(db, Lookup(db, cell[1], cell[2])) :
                    FactAt(db, r) = [FactAt(db, r) EXCEPT !.kind = CannotBe,
                                        !.position = cell[1], !.activation = cell[2]]
            /\ \E other \in Cells : KindAt(db, other[1], other[2]) = MustBe

----------------------------------------------------------------------------
\* C10: the fact log is append-only: every handle issued earlier stays valid
\* and denotes a fact with the same kind, Slot, Value and justifications.
C10_LogIsAppendOnly ==
    [][ CallStep =>
            /\ Len(Before.facts) <= Len(After.facts)
            /\ \A h \in Handles(Before) : FactAt(After, h) = FactAt(Before, h)
      ]_vars

\* The log of a node keeps a fact that is no longer the current fact of its
\* cell, and a node was made by integrating a fact into a cell whose current
\* fact it contradicts, on a log that held facts already.
C10_Witness ==
    /\ \E n \in NonRootNodes : \E h \in Handles(Node(n).facts) :
            Lookup(Node(n).facts, FactAt(Node(n).facts, h).position,
                   FactAt(Node(n).facts, h).activation) \notin {h, None}
    /\ \E n \in NonRootNodes :
            /\ Node(n).state.kind = "Contradicts"
            /\ FactAt(Node(n).facts, Node(n).state.fact).kind = ContradictingRequirements
            /\ Len(ParentDb(n).facts) > 0

----------------------------------------------------------------------------
\* A step that starts an assume: the integration of the assumed fact.
SubmitStep == pc \in {"idle", "try"} /\ CallStep

\* The node a step adds, and the Slot and Value of the assume the step is of.
NewNode == NodeAt(nodes', Len(nodes))
Assumed == IF Len(nodes') > Len(nodes) THEN NewNode.action ELSE assumption'

\* C11: if integrating the submitted fact itself produces a new Contradiction
\* (the assumed MustBe fact meets a CannotBe cell), integrate_and_consolidate
\* runs no sub-pass: the call ends in the same step, no cell other than the
\* submitted fact's changes, the call fails with a handle of a Contradiction
\* fact of the database's log, and the database keeps the submitted fact and
\* the Contradiction.
C11_NewContradictionEndsCall ==
    [][ (SubmitStep /\ KindAt(Before, Assumed.position, Assumed.activation) = CannotBe)
            => /\ Len(nodes') = Len(nodes) + 1
               /\ pc' \in {"idle", "try"}
               /\ NewNode.facts = After
               /\ NewNode.state.kind = "Contradicts"
               /\ NewNode.state.fact \in Handles(After) \ Handles(Before)
               /\ IsContradiction(FactAt(After, NewNode.state.fact).kind)
               /\ \A cell \in Cells \ {<< Assumed.position, Assumed.activation >>} :
                    Lookup(After, cell[1], cell[2]) = Lookup(Before, cell[1], cell[2])
               /\ Len(After.facts) = Len(Before.facts) + 2
               /\ \A h \in Handles(Before) : FactAt(After, h) = FactAt(Before, h)
               /\ AssumptionFact(After, Len(Before.facts),
                                 Assumed.position, Assumed.activation)
      ]_vars

\* A node whose assume met a CannotBe cell, under a lock with rules to propagate.
C11_Witness ==
    /\ lock.rules # << >>
    /\ \E n \in NonRootNodes :
            KindAt(ParentDb(n), Node(n).action.position,
                   Node(n).action.activation) = CannotBe

----------------------------------------------------------------------------
\* C12 (as stated): writing a MustBe fact to a cell whose current fact is a
\* Contradiction is a no-op that reports Unchanged: grid and log are left as
\* they were, and the write is not reported as a failure, so the node made by
\* assuming into such a cell has its parent's database and is Alive.
C12_WriteToContradictionIsNoFailure ==
    \A n \in NonRootNodes :
        IsContradiction(KindAt(ParentDb(n), Node(n).action.position,
                               Node(n).action.activation))
            => Node(n).facts = ParentDb(n) /\ Alive(n)

----------------------------------------------------------------------------
\* C13 (as stated): possibilities_for(view) yields exactly the complements
\* whose cell on the line holds no fact; a cell holding MustBe, CannotBe or
\* Contradiction is never yielded.
C13_PossibilitiesAreOpenCells ==
    \A n \in 0 .. (Len(nodes) - 1) : \A T \in Views : \A view \in 0 .. (ViewCount(T) - 1) :
        PossibilitiesFor(Node(n).facts, T, view) = OpenComplements(Node(n).facts, T, view)

----------------------------------------------------------------------------
\* The data of a tree node: everything but the list of its children.
NodeData(node) == [parent |-> node.parent, facts |-> node.facts,
                   action |-> node.action, state |-> node.state]

\* C14: each assume adds exactly one node: a child of the node the cursor was
\* on, carrying the assume's Slot and Value, whose database is the parent's
\* with the Assumption-tagged MustBe fact integrated (the parent's log is a
\* prefix of the child's, and the assumed cell holds a fact: the Assumption
\* fact unless the parent's cell held a fact already). The child is Contradicted
\* with a handle of a Contradiction fact of its own log, one the call added or
\* one it met in a cell of the parent's grid, and Alive only if the call added
\* no Contradiction and the assumed cell held none; outside try_possibilities
\* the cursor ends on the new child.
C14_AssumeAddsOneChild ==
    [][ Len(nodes') # Len(nodes) =>
            LET db == NewNode.facts
                parent_db == NodeAt(nodes, current).facts
                s == NewNode.action.position
                v == NewNode.action.activation
                added == Handles(db) \ Handles(parent_db)
            IN  /\ Len(nodes') = Len(nodes) + 1
                /\ NewNode.parent = current
                /\ NodeAt(nodes', current).children =
                        Append(NodeAt(nodes, current).children, Len(nodes))
                /\ NewNode.children = << >>
                /\ NewNode.action.kind = "Assume"
                /\ Consolidating => NewNode.action = SolverActionAssume(assumption.position,
                                                                        assumption.activation)
                /\ pc = "try" => NewNode.action = SolverActionAssume(Head(possibilities).position,
                                                                    Head(possibilities).activation)
                /\ db = After
                /\ \A h \in Handles(parent_db) : FactAt(db, h) = FactAt(parent_db, h)
                /\ Lookup(db, s, v) # None
                /\ IF Lookup(parent_db, s, v) = None
                   THEN AssumptionFact(db, Len(parent_db.facts), s, v)
                   ELSE \/ db = parent_db
                        \/ /\ KindAt(parent_db, s, v) = CannotBe
                           /\ AssumptionFact(db, Len(parent_db.facts), s, v)
                /\ IF NewNode.state.kind = "Contradicts"
                   THEN /\ NewNode.state.fact \in Handles(db)
                        /\ IsContradiction(FactAt(db, NewNode.state.fact).kind)
                        /\ \/ NewNode.state.fact \in added
                           \/ \E cell \in Cells :
                                NewNode.state.fact = Lookup(parent_db, cell[1], cell[2])
                   ELSE /\ NewNode.state = Unexplored
                        /\ \A h \in added : ~IsContradiction(FactAt(db, h).kind)
                        /\ ~IsContradiction(KindAt(parent_db, s, v))
                /\ try_current = None => current' = Len(nodes)
      ]_vars

\* A Contradicted child and an Alive child were added under a node that is not
\* the root.
C14_Witness ==
    \E n, m \in NonRootNodes :
        /\ Node(n).parent # 0
        /\ Node(n).state.kind = "Contradicts"
        /\ Alive(m)
        /\ Len(Node(m).facts.facts) > 1

----------------------------------------------------------------------------
\* C15: no operation removes a tree node or changes the database, action,
\* status or parent of a node that exists: the number of nodes never
\* decreases, every existing node keeps its data whatever is done to the
\* other nodes' databases, and a step that moves the cursor without adding a
\* node changes nothing but the cursor.
C15_NodesAreKept ==
    [][ /\ Len(nodes') >= Len(nodes)
        /\ \A n \in 0 .. (Len(nodes) - 1) :
                NodeData(NodeAt(nodes', n)) = NodeData(NodeAt(nodes, n))
        /\ (current' # current /\ Len(nodes') = Len(nodes)) =>
                UNCHANGED << lock, nodes, pc, derived_facts, changed, assumption,
                             possibilities, try_current >>
      ]_vars

\* After going back, a second branch was grown from a node: it has two
\* children whose databases differ from its own and from each other's.
C15_Witness ==
    \E n \in 0 .. (Len(nodes) - 1) :
        /\ Len(Node(n).children) = 2
        /\ Node(Node(n).children[1]).facts # Node(Node(n).children[2]).facts
        /\ Node(n).facts # Node(Node(n).children[1]).facts
        /\ Node(n).facts # Node(Node(n).children[2]).facts

----------------------------------------------------------------------------
\* The assumes try_possibilities makes of the given complements of line `it`.
CandidateCells(T, it, complements) ==
    [i \in 1 .. Len(complements) |->
        [activation |-> ChooseActivation(T, it, complements[i]),
         position |-> ChoosePosition(T, it, complements[i])]]

\* The step enters try_possibilities; the step is taken inside it.
TryStarts == pc = "idle" /\ pc' = "try"
InTry == try_current # None

\* The nodes the tree holds plus those try_possibilities has still to add.
TryBalance == Len(nodes) + Len(possibilities) + (IF Consolidating THEN 1 ELSE 0)

\* C16 (as stated): try_possibilities(view) leaves the cursor on the node it
\* was on and adds exactly one node per still-open candidate of the view, the
\* cells of the line that hold no fact in the pre-call node's database, every
\* one of them a direct child of the pre-call node.
C16_TryFansOutOverOpenCells ==
    [][ /\ TryStarts =>
                /\ try_current' = current
                /\ current' = current
                /\ nodes' = nodes
                /\ \E T \in Views : \E it \in 0 .. (ViewCount(T) - 1) :
                        possibilities' =
                            CandidateCells(T, it,
                                OpenComplements(NodeAt(nodes, current).facts, T, it))
        /\ InTry =>
                /\ TryBalance' = TryBalance
                /\ current' = try_current
                /\ Len(nodes') # Len(nodes) =>
                        /\ Len(nodes') = Len(nodes) + 1
                        /\ NewNode.parent = try_current
      ]_vars

----------------------------------------------------------------------------
\* C17 (as stated): a node whose status is Contradicted never receives a new
\* child: no node has a Contradicted parent.
C17_ContradictedHasNoChild ==
    \A n \in NonRootNodes : Node(Node(n).parent).state.kind # "Contradicts"

----------------------------------------------------------------------------
\* C18: get_handle(id) returns the handle id exactly when id is smaller than
\* the number of tree nodes and otherwise the UnknownNode error; the cursor,
\* and the cursor try_possibilities restores, always designate an existing
\* node.
C18_CursorDesignatesNode ==
    /\ \A id \in 0 .. (Len(nodes) + 1) :
            /\ GetHandle(nodes, id).ok <=> id < Len(nodes)
            /\ GetHandle(nodes, id).ok => GetHandle(nodes, id).handle = id
            /\ ~GetHandle(nodes, id).ok => GetHandle(nodes, id).error = "UnknownNode"
    /\ current \in 0 .. (Len(nodes) - 1)
    /\ try_current # None => try_current \in 0 .. (Len(nodes) - 1)

\* The cursor was set back to a node that is neither the newest node nor its
\* parent, while the View command can still name a node that does not exist.
C18_Witness ==
    /\ pc = "idle"
    /\ current < Len(nodes) - 1
    /\ Node(Len(nodes) - 1).parent # current
    /\ ~GetHandle(nodes, MaxNodes).ok

----------------------------------------------------------------------------
\* C19 (as stated): for every node the cursor can be placed on, Contradicted
\* nodes included, displaying the node does not end the process:
\* fixed_assignment() of the node's database does not fail.
C19_DisplayNeverFails ==
    pc = "idle" => FixedAssignment(NodeAt(nodes, current).facts).ok

----------------------------------------------------------------------------
\* The databases of the tree and the working copy of the running assume.
Databases == { Node(n).facts : n \in 0 .. (Len(nodes) - 1) } \cup {derived_facts}

\* C20: every Fact-kind justification of every fact of a database's log
\* refers to a handle strictly smaller than the fact's own handle.
C20_JustificationsPointBack ==
    \A db \in Databases : \A h \in Handles(db) : \A r \in CitedFacts(db, h) :
        r >= 0 /\ r < h

\* A log holds a Contradiction that cites two facts, a MustBe fact that cites
\* the CannotBe facts of its line, and a fact derived by a rule.
C20_Witness ==
    \E db \in Databases :
        /\ \E h \in Handles(db) :
                /\ FactAt(db, h).kind = ContradictingRequirements
                /\ Cardinality(CitedFacts(db, h)) = 2
        /\ \E h \in Handles(db) :
                /\ FactAt(db, h).kind = MustBe
                /\ Cardinality(CitedFacts(db, h)) = NumRunes - 1
        /\ \E h \in Handles(db) : \E i \in 1 .. Len(FactAt(db, h).reasons) :
                FactAt(db, h).reasons[i].tag = "Rule"

----------------------------------------------------------------------------
\* Explanations (fact_db.rs FactDb::explain, explainer.rs, mod.rs explain)

\* The greatest max_depth an explanation is requested with.
MaxDepth == 1

\* The key of FactDb::explain's reasons.sort_by_key.
ExplainSortKey(reason) ==
    IF reason.tag = "Fact" THEN 10000 + reason.ref
    ELSE IF reason.tag = "Rule" THEN 10 + reason.ref
    ELSE 0

\* reasons.sort_by_key(..): a stable sort; the reason placed at index i is the
\* one with i - 1 reasons before it in (key, original index) order.
SortedReasons(reasons) ==
    LET before(j, k) ==
            \/ ExplainSortKey(reasons[j]) < ExplainSortKey(reasons[k])
            \/ ExplainSortKey(reasons[j]) = ExplainSortKey(reasons[k]) /\ j < k
        rank(k) == Cardinality({ j \in 1 .. Len(reasons) : before(j, k) })
    IN  [i \in 1 .. Len(reasons) |->
            reasons[CHOOSE k \in 1 .. Len(reasons) : rank(k) = i - 1]]

\* One printed line: the fact of a handle, a Rule citation, the Assumption
\* marker, or "Unknown handle"; depth is the current_depth it is printed at.
ExplainLine(line, ref, depth) == [line |-> line, ref |-> ref, depth |-> depth]

RECURSIVE ExplainFactLines(_, _, _, _)
RECURSIVE ExplainReasonLines(_, _, _, _, _)

\* The loop `for reason in reasons` of FactDb::explain's explain_fact, from
\* the i-th sorted reason on.
ExplainReasonLines(db, reasons, i, current_depth, max_depth) ==
    IF i > Len(reasons) THEN << >>
    ELSE LET reason == reasons[i]
             lines ==
                IF reason.tag = "Fact"
                THEN IF current_depth + 1 <= max_depth
                     THEN ExplainFactLines(db, reason.ref, current_depth + 1, max_depth)
                     ELSE << >>
                ELSE IF reason.tag = "Rule"
                THEN << ExplainLine("Rule", reason.ref, current_depth) >>
                ELSE << ExplainLine("Assumption", None, current_depth) >>
         IN  lines \o ExplainReasonLines(db, reasons, i + 1, current_depth, max_depth)

\* explain_fact of FactDb::explain: the lines it prints, in order.
ExplainFactLines(db, handle, current_depth, max_depth) ==
    IF current_depth > max_depth THEN << >>
    ELSE IF handle \notin 0 .. (Len(db.facts) - 1)
    THEN << ExplainLine("Unknown", handle, current_depth) >>
    ELSE << ExplainLine("Fact", handle, current_depth) >>
         \o ExplainReasonLines(db, SortedReasons(FactAt(db, handle).reasons), 1,
                               current_depth, max_depth)

\* FactDb::explain(fact_handle, lock, max_depth)
FactDbExplain(db, fact_handle, max_depth) ==
    ExplainFactLines(db, fact_handle, 0, max_depth)

RECURSIVE ExplainFactD(_, _, _)

\* explainer.rs explain_fact_d: the facts it prints, each with the number of
\* justification steps between it and the requested fact.  The fact itself is
\* printed, its cited facts are printed in the groups of similar_but_position,
\* and every fact a cited fact cites is explained by print_fact_reason.  The
\* groups are visited in the HashMap's order, which the program does not fix:
\* the output is kept as a set of lines.  A cited handle outside the log makes
\* facts.get(..).unwrap() fail.
ExplainFactD(db, fact_handle, level) ==
    IF fact_handle \notin 0 .. (Len(db.facts) - 1)
    THEN { ExplainLine("Unknown", fact_handle, level) }
    ELSE LET cited == CitedFacts(db, fact_handle)
         IN  IF \E c \in cited : c \notin 0 .. (Len(db.facts) - 1)
             THEN { ExplainLine("Panic", fact_handle, level) }
             ELSE {ExplainLine("Fact", fact_handle, level)}
                  \cup { ExplainLine("Fact", c, level + 1) : c \in cited }
                  \cup UNION { ExplainFactD(db, g, level + 2) :
                                g \in UNION { CitedFacts(db, c) : c \in cited } }

\* explainer.rs explain_fact
ExplainFact(db, fact_handle) == ExplainFactD(db, fact_handle, 0)

\* FactualSolver::explain(fact_handle, max_depth): the facts printed by
\* db.explain(..) and then by explain_fact(..), with their levels.
SolverExplain(db, fact_handle, max_depth) ==
    LET lines == FactDbExplain(db, fact_handle, max_depth)
    IN  { lines[i] : i \in 1 .. Len(lines) } \cup ExplainFact(db, fact_handle)

RECURSIVE Within(_, _, _)

\* The facts at most d justification steps below the fact of handle h.
Within(db, h, d) ==
    IF d = 0 \/ h \notin 0 .. (Len(db.facts) - 1) THEN {h}
    ELSE {h} \cup UNION { Within(db, c, d - 1) : c \in CitedFacts(db, h) }

\* C21 (as stated): an explanation of a fact of the current node's database,
\* requested with maximum depth d, prints no fact more than d justification
\* steps below the requested fact.
C21_ExplainStaysWithinDepth ==
    pc = "idle" =>
        LET db == NodeAt(nodes, current).facts
        IN  \A h \in 0 .. (Len(db.facts) - 1) : \A d \in 0 .. MaxDepth :
                \A l \in SolverExplain(db, h, d) :
                    l.line = "Fact" => l.ref \in Within(db, h, d)

\* C22 (as stated): in FactDb::explain's output for a derived MustBe fact, no
\* Fact justification is dropped silently: every printed fact that cites
\* facts is followed by the lines of the facts it cites, one level deeper, or
\* by a line that marks the cut.
C22_CutOffIsMarked ==
    pc = "idle" =>
        LET db == NodeAt(nodes, current).facts
        IN  \A h \in 0 .. (Len(db.facts) - 1) : \A d \in 0 .. MaxDepth :
                (FactAt(db, h).kind = MustBe /\ CitedFacts(db, h) # {}) =>
                    LET lines == FactDbExplain(db, h, d)
                    IN  \A i \in 1 .. Len(lines) :
                            (lines[i].line = "Fact" /\ CitedFacts(db, lines[i].ref) # {}) =>
                                \E j \in (i + 1) .. Len(lines) :
                                    \/ lines[j].line = "Truncated"
                                    \/ /\ lines[j].line = "Fact"
                                       /\ lines[j].depth = lines[i].depth + 1
                                       /\ lines[j].ref \in CitedFacts(db, lines[i].ref)

----------------------------------------------------------------------------
\* Commands (command.rs)

\* The greatest number of arguments of a command line.
MaxArgs == 2

\* A line is its command word and its arguments, separated by single spaces;
\* an argument is a sequence of characters.
Digits == << "0", "1", "2", "3", "4", "5", "6", "7", "8", "9" >>
IsDigit(c) == \E i \in 1 .. 10 : Digits[i] = c
DigitValue(c) == (CHOOSE i \in 1 .. 10 : Digits[i] = c) - 1

RECURSIVE Join(_)
\* The arguments as the text after the command word's space.
Join(args) ==
    IF args = << >> THEN << >>
    ELSE IF Len(args) = 1 THEN args[1]
    ELSE args[1] \o << " " >> \o Join(Tail(args))

RECURSIVE DigitsValue(_)
DigitsValue(chars) ==
    IF chars = << >> THEN 0
    ELSE 10 * DigitsValue(SubSeq(chars, 1, Len(chars) - 1))
         + DigitValue(chars[Len(chars)])

\* str::parse::<usize>() and ::<u8>(): an optional '+', then digits only, and
\* a value of at most max; anything else is a ParseIntError.  UsizeMax, 2^64 - 1,
\* is beyond every number a line of the model spells: it is given as None and
\* never exceeded.
ParseUnsigned(chars, max) ==
    LET digits == IF chars # << >> /\ chars[1] = "+" THEN Tail(chars) ELSE chars
    IN  IF digits = << >> \/ \E i \in 1 .. Len(digits) : ~IsDigit(digits[i])
        THEN [ok |-> FALSE, value |-> 0]
        ELSE IF max # None /\ DigitsValue(digits) > max
        THEN [ok |-> FALSE, value |-> 0]
        ELSE [ok |-> TRUE, value |-> DigitsValue(digits)]

UsizeMax == None
U8Max == 255

\* Activation::from_human(one_based)
ActivationFromHuman(one_based) ==
    IF one_based < 1 THEN [ok |-> FALSE, value |-> 0]
    ELSE IF ActivationInBounds(one_based - 1)
    THEN [ok |-> TRUE, value |-> one_based - 1]
    ELSE [ok |-> FALSE, value |-> 0]

CommandOk(command) == [tag |-> "Ok", command |-> command]
CommandErr(error) == [tag |-> "Err", error |-> error]
\* assert!(index < 12) of RunePosition::new fails: the process panics.
CommandPanic == [tag |-> "Panic"]

\* RunePosition::new(index): whether its assertion holds.
RunePositionNew(index) == index < 12

\* The "assume" arm of SolverCommand::parse.
ParseAssume(args) ==
    IF Len(args) < 2 THEN CommandErr("NotEnoughArguments")
    ELSE LET position == ParseUnsigned(args[1], UsizeMax)
             activation == ParseUnsigned(Join(Tail(args)), U8Max)
         IN  IF ~position.ok THEN CommandErr("NumberFormat")
             ELSE IF ~activation.ok THEN CommandErr("NumberFormat")
             ELSE IF ~RunePositionNew(position.value) THEN CommandPanic
             ELSE IF ~ActivationFromHuman(activation.value).ok
             THEN CommandErr("ActivationInvalid")
             ELSE CommandOk([kind |-> "Assume", position |-> position.value,
                             activation |-> ActivationFromHuman(activation.value).value])

\* The "tryposition" arm.
ParseTryInPosition(args) ==
    LET position == ParseUnsigned(Join(args), UsizeMax)
    IN  IF ~position.ok THEN CommandErr("NumberFormat")
        ELSE IF ~RunePositionNew(position.value) THEN CommandPanic
        ELSE CommandOk([kind |-> "TryInPosition", position |-> position.value])

\* The "tryactivation" arm.
ParseTryActivation(args) ==
    LET act == ParseUnsigned(Join(args), U8Max)
    IN  IF ~act.ok THEN CommandErr("NumberFormat")
        ELSE IF ~ActivationFromHuman(act.value).ok THEN CommandErr("ActivationInvalid")
        ELSE CommandOk([kind |-> "TryActivation",
                        activation |-> ActivationFromHuman(act.value).value])

\* The "view" and "explain" arms.
ParseNumbered(kind, args) ==
    LET number == ParseUnsigned(Join(args), UsizeMax)
    IN  IF ~number.ok THEN CommandErr("NumberFormat")
        ELSE CommandOk([kind |-> kind, number |-> number.value])

\* SolverCommand::parse(text)
SolverCommandParse(line) ==
    IF line.command \in {"assume", "a"} THEN ParseAssume(line.args)
    ELSE IF line.command \in {"view", "v"} THEN ParseNumbered("View", line.args)
    ELSE IF line.command \in {"explain", "e"} THEN ParseNumbered("Explain", line.args)
    ELSE IF line.command \in {"tryposition", "tp"} THEN ParseTryInPosition(line.args)
    ELSE IF line.command \in {"tryactivation", "ta"} THEN ParseTryActivation(line.args)
    ELSE IF line.command \in {"dump", "d"} THEN CommandOk([kind |-> "Dump"])
    ELSE CommandErr("UnknownCommand")

\* The command words and the arguments the lines are made of.
CommandWords ==
    { "assume", "a", "view", "v", "explain", "e", "tryposition", "tp",
      "tryactivation", "ta", "dump", "d", "quit" }
ArgumentTexts ==
    { << >>, << "0" >>, << "1" >>, << "1", "1" >>, << "1", "2" >>, << "1", "3" >>,
      << "2", "5", "6" >>, << "+", "3" >>, << "-", "1" >>, << "x" >> }
Lines ==
    { [command |-> word, args |-> args] :
        word \in CommandWords,
        args \in UNION { [1 .. n -> ArgumentTexts] : n \in 0 .. MaxArgs } }

\* A line has been read and awaits parsing.
InitCommand ==
    /\ InitSolver
    /\ lock = MainLock
    /\ text \in Lines
    /\ parsed = NoCommand
    /\ self_position = 0
    /\ other_position = 0
    /\ the_assignment = AssignmentNew
    /\ writes = 0
    /\ legacy = SolverNew

\* The line is parsed; the solver is not involved.
Parse ==
    /\ parsed = NoCommand
    /\ parsed' = SolverCommandParse(text)
    /\ UNCHANGED << solver_vars, text, index_vars, the_assignment, writes, legacy >>

NextCommand == Parse

SpecCommand == InitCommand /\ [][NextCommand]_vars

\* The Slot argument of the line, when the line is an assume or a tryposition
\* whose arguments parse as numbers; None otherwise.
SlotArgument(line) ==
    IF line.command \in {"assume", "a"} /\ Len(line.args) >= 2
       /\ ParseUnsigned(line.args[1], UsizeMax).ok
       /\ ParseUnsigned(Join(Tail(line.args)), U8Max).ok
    THEN ParseUnsigned(line.args[1], UsizeMax).value
    ELSE IF line.command \in {"tryposition", "tp"}
            /\ ParseUnsigned(Join(line.args), UsizeMax).ok
    THEN ParseUnsigned(Join(line.args), UsizeMax).value
    ELSE None

\* C23 (as stated): parsing an assume or tryposition line whose Slot argument
\* is 12 or more yields a reported error, never a panic.
C23_OutOfRangeSlotIsReported ==
    (parsed # NoCommand /\ SlotArgument(text) # None
        /\ SlotArgument(text) >= NumRunes) =>
        parsed.tag = "Err"

----------------------------------------------------------------------------
\* The relations of index.rs on their own: every pair of RunePositions.

\* RunePosition::new(a), RunePosition::new(b), as test_pairs builds them.
Relate(a, b) ==
    /\ self_position' = a
    /\ other_position' = b
    /\ UNCHANGED << solver_vars, text, parsed, the_assignment, writes, legacy >>

NextIndex == \E a \in Positions, b \in Positions : Relate(a, b)

SpecIndex == InitMainLock /\ [][NextIndex]_vars

\* C24: for the Slots a = self_position and b = other_position, b is alwanese
\* of a exactly when (b - a) mod 6 is 1 or 2, whatever half-rings they are on;
\* a and b are never alwanese of each other, and a is not alwanese of itself.
C24_AlwaneseIsDirectional ==
    LET a == self_position
        b == other_position
    IN  /\ alwanese_of(b, a) <=> ((b - a) % 6 \in {1, 2})
        /\ ~(alwanese_of(a, b) /\ alwanese_of(b, a))
        /\ ~alwanese_of(a, a)

\* b is alwanese of a across the half-rings and across the wrap of the ring:
\* a = 11 on the inner ring, b = 0 on the outer.
C24_Witness ==
    /\ self_position = 11
    /\ other_position = 0
    /\ alwanese_of(other_position, self_position)
    /\ ~alwanese_of(self_position, other_position)

\* C25: a is the antakian conjugate of b exactly when both are on the same
\* half-ring and a mod 6 = (b + 3) mod 6; the relation is symmetric, b is the
\* conjugate of a exactly when b is the Slot antiakian_conjugate() returns for
\* a, so each Slot has one conjugate, and antiakian_conjugate is an involution.
C25_AntakianConjugateIsPartner ==
    LET a == self_position
        b == other_position
    IN  /\ antakian_conjugate_of(a, b) <=>
                (((a < 6) = (b < 6)) /\ a % 6 = (b + 3) % 6)
        /\ antakian_conjugate_of(a, b) <=> antakian_conjugate_of(b, a)
        /\ antakian_conjugate_of(a, b) <=> (b = antiakian_conjugate(a))
        /\ antiakian_conjugate(a) \in Positions
        /\ antiakian_conjugate(antiakian_conjugate(a)) = a

\* A conjugate pair of the inner ring: 10 and 7.
C25_Witness ==
    /\ self_position = 10
    /\ other_position = 7
    /\ antakian_conjugate_of(self_position, other_position)
    /\ antiakian_conjugate(self_position) = other_position

----------------------------------------------------------------------------
\* Assignment::assign and RuleKind::validate on their own

\* assign is called with every RunePosition and with the Activations
\* 0 .. MaxValue.
MaxValue == 2

\* A variant of AssignmentAssign that leaves the Activation's old RunePosition
\* as it was.
AssignmentAssignKeepingOld(assignment, position, activation) ==
    LET old == assignment.activation_of_position[position]
    IN  [ok |-> TRUE,
         position_of_activation |->
            [a \in 0 .. 11 |->
                IF a = activation THEN position
                ELSE IF a = old THEN None
                ELSE assignment.position_of_activation[a]],
         activation_of_position |->
            [assignment.activation_of_position EXCEPT ![position] = activation]]

\* Assignment::assign(position, activation), statement by statement.
AssignmentAssign(assignment, position, activation) ==
    LET old_position == assignment.position_of_activation[activation]
        cleared ==
            IF old_position # None
            THEN [assignment.activation_of_position EXCEPT ![old_position] = None]
            ELSE assignment.activation_of_position
        old_activation == cleared[position]
        forgotten ==
            IF old_activation # None
            THEN [assignment.position_of_activation EXCEPT ![old_activation] = None]
            ELSE assignment.position_of_activation
    IN  [ok |-> TRUE,
         position_of_activation |-> [forgotten EXCEPT ![activation] = position],
         activation_of_position |-> [cleared EXCEPT ![position] = activation]]

Assign(position, activation) ==
    /\ the_assignment' = AssignmentAssign(the_assignment, position, activation)
    /\ UNCHANGED << solver_vars, text, parsed, index_vars, writes, legacy >>

\* IndexMut::index_mut for Assignment followed by the write through the
\* returned reference, `assignment[position] = value`: only
\* activation_of_position changes.  No code of the repository writes through
\* it; it is part of the type's public interface.
AssignmentIndexMut(assignment, position, value) ==
    [assignment EXCEPT !.activation_of_position[position] = value]

\* At most MaxWrites writes through index_mut are made on one Assignment.
MaxWrites == 1

IndexMut(position, value) ==
    /\ writes < MaxWrites
    /\ the_assignment' = AssignmentIndexMut(the_assignment, position, value)
    /\ writes' = writes + 1
    /\ UNCHANGED << solver_vars, text, parsed, index_vars, legacy >>

\* The writes through index_mut are made on the RunePositions
\* 0 .. MaxPosition, with None and the Activations 0 .. MaxValue.
NextAssignment ==
    \/ \E position \in Positions, activation \in 0 .. MaxValue :
            Assign(position, activation)
    \/ \E position \in 0 .. MaxPosition, value \in {None} \cup (0 .. MaxValue) :
            IndexMut(position, value)

SpecAssignment == InitMainLock /\ [][NextAssignment]_vars

\* The pairings an Assignment holds, read from either lookup array.
PairsByPosition(assignment) ==
    { c \in Cells : assignment.activation_of_position[c[1]] = c[2] }
PairsByActivation(assignment) ==
    { c \in Cells : assignment.position_of_activation[c[2]] = c[1] }

\* The two lookup arrays hold the same pairings.
MutualInverses(assignment) ==
    PairsByPosition(assignment) = PairsByActivation(assignment)

\* C26: an Assignment starts with its two lookup arrays mutual inverses, and
\* every assign call on an Assignment whose arrays are mutual inverses leaves
\* them mutual inverses, so after any sequence of assign calls no Slot holds
\* two Values and no Value is at two Slots; the call adds its pairing and
\* removes from both arrays exactly the pairings that share its Slot or its
\* Value.
C26_AssignKeepsArraysInverse ==
    /\ MutualInverses(the_assignment)
    /\ [][ MutualInverses(the_assignment) =>
                \A position \in Positions, activation \in 0 .. MaxValue :
                    ( the_assignment' =
                        AssignmentAssign(the_assignment, position, activation) )
                    => /\ MutualInverses(the_assignment')
                       /\ PairsByPosition(the_assignment') =
                            { c \in PairsByPosition(the_assignment) :
                                c[1] # position /\ c[2] # activation }
                            \cup { << position, activation >> }
          ]_vars

\* Every Value of the model is placed, Value 0 on the last Slot, and the two
\* arrays agree.
C26_Witness ==
    /\ MutualInverses(the_assignment)
    /\ Cardinality(PairsByPosition(the_assignment)) = MaxValue + 1
    /\ the_assignment.position_of_activation[0] = 11
    /\ the_assignment.activation_of_position[0] # None

----------------------------------------------------------------------------
\* The rules over two Values: every kind but RuneFollowsImmediately, whose
\* first and second are Runes.
ValueRuleKinds ==
    { Alwanese, AntakianConjugates, AlwaneseConjugates, DifferentRunes,
      AntakianTwins, IncreaseSantor, Max0Conductive }

ValueRules ==
    { Rule(kind, first, second) :
        kind \in ValueRuleKinds, first \in 0 .. MaxValue, second \in 0 .. MaxValue }

\* The relation a rule asks for between the Slot of its first Value (one) and
\* the Slot of its second (two), written out over the two half-rings of six.
RelationHolds(rule, rules_lock, one, two) ==
    IF rule.kind = Alwanese THEN (two - one) % 6 \in {1, 2}
    ELSE IF rule.kind = AntakianConjugates
    THEN one \div 6 = two \div 6 /\ one % 6 = (two + 3) % 6
    ELSE IF rule.kind = AlwaneseConjugates THEN one % 6 = (two + 3) % 6
    ELSE IF rule.kind = DifferentRunes
    THEN rules_lock.runes[one + 1] # rules_lock.runes[two + 1]
    ELSE IF rule.kind = AntakianTwins THEN one \div 6 = two \div 6
    ELSE IF rule.kind = IncreaseSantor THEN SANTOR[one + 1] < SANTOR[two + 1]
    ELSE IF one \div 6 = two \div 6
    THEN (one - two) % 6 \in {1, 5}
    ELSE one % 6 = two % 6

\* C27: for every rule over two Values, validate on the Assignment answers Ok
\* when neither Value is placed, and when both are placed it answers Violated
\* if the rule's relation fails for their Slots and Ok if it holds.
C27_ValidateOnBothOrNeither ==
    \A rule \in ValueRules :
        LET one == PositionOf(the_assignment, rule.first)
            two == PositionOf(the_assignment, rule.second)
            answer == Validate(rule, lock, the_assignment)
        IN  /\ (one = None /\ two = None) => answer = "Ok"
            /\ (one # None /\ two # None) =>
                    answer = IF RelationHolds(rule, lock, one, two)
                             THEN "Ok" ELSE "Violated"

\* Values 0 and 1 are placed on Slots of different half-rings while Value 2 is
\* not placed: rules over 0 and 1 have both placed, a rule over 2 and 2 none.
C27_Witness ==
    /\ PositionOf(the_assignment, 0) = 5
    /\ PositionOf(the_assignment, 1) = 6
    /\ PositionOf(the_assignment, 2) = None
    /\ Validate(Rule(Alwanese, 0, 1), lock, the_assignment) = "Ok"
    /\ Validate(Rule(AntakianTwins, 0, 1), lock, the_assignment) = "Violated"

\* The Slots that hold no Value.
Unoccupied(assignment) ==
    { s \in Positions : ActivationOn(assignment, s) = None }

\* C28 (as stated): on an Assignment whose two arrays agree, when exactly one
\* of a rule's two Values is placed, validate answers Unfulfillable exactly
\* when no unoccupied Slot exists at which the other Value would satisfy the
\* rule's relation with the placed one.
C28_UnfulfillableWhenNoSlotLeft ==
    MutualInverses(the_assignment) =>
    \A rule \in ValueRules :
        LET one == PositionOf(the_assignment, rule.first)
            two == PositionOf(the_assignment, rule.second)
            answer == Validate(rule, lock, the_assignment)
            free == Unoccupied(the_assignment)
        IN  /\ (rule.first # rule.second /\ one # None /\ two = None) =>
                    (answer = "Unfulfillable" <=>
                        ~\E s \in free : RelationHolds(rule, lock, one, s))
            /\ (rule.first # rule.second /\ one = None /\ two # None) =>
                    (answer = "Unfulfillable" <=>
                        ~\E s \in free : RelationHolds(rule, lock, s, two))

----------------------------------------------------------------------------
\* The log grew in the step: a sub-pass integrated at least one derived fact.
Grew == Len(derived_facts'.facts) > Len(derived_facts.facts)

\* The step ended the call with a Contradicted node.
Failed == Len(nodes') > Len(nodes) /\ NewNode.state.kind = "Contradicts"

\* C29: a consolidation pass starts with the per-Slot sub-pass, goes on with
\* the per-Value sub-pass and then with rule propagation; after the rules
\* another pass starts whenever one of the three sub-passes of the pass
\* integrated a fact, and the call succeeds only after a pass in which none did.
C29_PassOrderAndRepeat ==
    [][ /\ (~Consolidating /\ Consolidating') => (pc' = "unique_position" /\ ~changed')
        /\ pc = "unique_position" =>
                Failed \/ (pc' = "unique_activation" /\ changed' = Grew)
        /\ pc = "unique_activation" =>
                Failed \/ (pc' = "rules" /\ changed' = (changed \/ Grew))
        /\ pc = "rules" =>
                \/ Failed
                \/ /\ changed \/ Grew
                   /\ pc' = "unique_position"
                   /\ ~changed'
                   /\ nodes' = nodes
                \/ /\ ~changed /\ ~Grew
                   /\ Len(nodes') = Len(nodes) + 1
                   /\ NewNode.state = Unexplored
                   /\ NewNode.facts = derived_facts
        /\ (Consolidating /\ Len(nodes') > Len(nodes) /\ NewNode.state = Unexplored) =>
                (pc = "rules" /\ ~changed /\ ~Grew)
      ]_vars

\* A later pass is under way: the per-Value sub-pass is about to run on a log
\* that already holds a fact derived by a rule, and the per-Slot sub-pass of
\* this pass integrated something.
C29_Witness ==
    /\ pc = "unique_activation"
    /\ changed
    /\ \E h \in Handles(derived_facts) :
            \E i \in 1 .. Len(FactAt(derived_facts, h).reasons) :
                FactAt(derived_facts, h).reasons[i].tag = "Rule"

\* C30: when a sub-pass integrates a derived fact that yields a Contradiction,
\* that Contradiction is the last fact of the log (nothing of the sub-pass is
\* integrated after it), the call ends in the same step with a node
\* Contradicted by its handle, and no further sub-pass runs.
C30_ContradictionEndsConsolidation ==
    [][ Consolidating =>
            LET added == Handles(derived_facts') \ Handles(derived_facts)
                found == { h \in added : IsContradiction(FactAt(derived_facts', h).kind) }
            IN  /\ found # {} =>
                    /\ found = { Len(derived_facts'.facts) - 1 }
                    /\ Failed
                    /\ NewNode.state = Contradicts(Len(derived_facts'.facts) - 1)
                    /\ NewNode.facts = derived_facts'
                    /\ ~Consolidating'
                /\ Failed =>
                    /\ ~Consolidating'
                    /\ NewNode.state.fact \in Handles(derived_facts')
                    /\ IsContradiction(FactAt(derived_facts', NewNode.state.fact).kind)
                    /\ found = {} =>
                            \E cell \in Cells :
                                Lookup(derived_facts, cell[1], cell[2]) = NewNode.state.fact
      ]_vars

\* A consolidation ended on a Contradiction it derived after other facts of
\* the same call: the node's handle is the last fact of its log and is not the
\* fact that follows the parent's log.
C30_Witness ==
    \E n \in NonRootNodes :
        /\ Node(n).state.kind = "Contradicts"
        /\ Node(n).state.fact = Len(Node(n).facts.facts) - 1
        /\ Node(n).state.fact > Len(ParentDb(n).facts) + 1

----------------------------------------------------------------------------
\* The cells of a database's grid that hold no fact.
EmptyCells(db) == { c \in Cells : db.fact_lookup[c] = None }

\* C31: no step of integrate_and_consolidate empties a cell, and every step,
\* the submission or a sub-pass, that adds a fact to the log either fills a
\* cell that was empty or ends the call with a contradiction; a pass that
\* reports a change and goes on has therefore fewer empty cells than the one
\* before, and at most as many passes change something as the grid has cells.
C31_ChangeFillsACell ==
    [][ CallStep =>
            /\ EmptyCells(After) \subseteq EmptyCells(Before)
            /\ (Len(After.facts) > Len(Before.facts) /\ ~Failed) =>
                    EmptyCells(After) # EmptyCells(Before)
            /\ (Len(After.facts) = Len(Before.facts)) =>
                    After.fact_lookup = Before.fact_lookup
      ]_vars

\* The last pass of a call: the rules are about to run after two uniqueness
\* sub-passes that changed nothing, on a log that holds a derived MustBe fact
\* of an earlier pass.
C31_Witness ==
    /\ pc = "rules"
    /\ ~changed
    /\ \E h \in Handles(derived_facts) :
            /\ FactAt(derived_facts, h).kind = MustBe
            /\ CitedFacts(derived_facts, h) # {}

----------------------------------------------------------------------------
\* The view of the uniqueness sub-pass that is about to run.
SubPassView == IF pc = "unique_position" THEN ViewRunePosition ELSE ViewActivation

\* C32 (as stated): in a uniqueness sub-pass, on every line that holds exactly
\* one MustBe cell, every other cell that had no fact becomes CannotBe,
\* justified by that MustBe fact alone, and a cell that already holds CannotBe
\* or a Contradiction keeps its fact and makes the call fail in no case.
C32_SingleMustBeExcludesLine ==
    [][ (pc \in {"unique_position", "unique_activation"} =>
            LET T == SubPassView
                db == derived_facts
                after == derived_facts'
            IN  \A view \in 0 .. (ViewCount(T) - 1) :
                    Len(MustBeComplements(db, T, view)) = 1 =>
                        LET must_be_complement == MustBeComplements(db, T, view)[1]
                            must_be_fact == LaneHandle(db, T, view, must_be_complement)
                        IN  \A c \in 0 .. (ComplementCount(T) - 1) :
                                c # must_be_complement =>
                                    IF LaneHandle(db, T, view, c) = None
                                    THEN /\ LaneKind(after, T, view, c) = CannotBe
                                         /\ CitedFacts(after, LaneHandle(after, T, view, c))
                                                = {must_be_fact}
                                         /\ Len(FactAt(after, LaneHandle(after, T, view, c)).reasons) = 1
                                    ELSE /\ LaneHandle(after, T, view, c) = LaneHandle(db, T, view, c)
                                         /\ ~(Failed /\ NewNode.state.fact = LaneHandle(db, T, view, c)))
      ]_vars


----------------------------------------------------------------------------
\* Rule propagation

\* The rules that relate two Values (every kind but RuneFollowsImmediately).
PairRuleIndices ==
    { i \in 0 .. (Len(lock.rules) - 1) : lock.rules[i + 1].kind # RuneFollowsImmediately }

\* The Values a two-Value rule pairs with Value v.
OtherValues(rule, v) ==
    (IF rule.first = v THEN {rule.second} ELSE {})
    \cup (IF rule.second = v THEN {rule.first} ELSE {})

\* The derivations a rule-propagation sub-pass owes on database db: a MustBe
\* (s, v), a two-Value rule i that mentions v, its other Value w, and a Slot t
\* whose cell for w is neither CannotBe nor Contradiction and whose pair with
\* the given does not validate.
PairDerivations(db) ==
    LET givens == { c \in Cells : KindAt(db, c[1], c[2]) = MustBe }
    IN  UNION { { [s |-> gi[1][1], v |-> gi[1][2], i |-> gi[2], t |-> c[1], w |-> c[2]] :
                    c \in { c \in Positions \X OtherValues(lock.rules[gi[2] + 1], gi[1][2]) :
                              /\ KindAt(db, c[1], c[2]) \in {"Unknown", MustBe}
                              /\ ValidateTuple(lock.rules[gi[2] + 1], lock, gi[1], c) # "Ok" } } :
                gi \in givens \X PairRuleIndices }

\* The fact a derivation stands for.
DerivedFact(db, d) ==
    Fact(CannotBe, d.t, d.w,
         << ReasonFact(Lookup(db, d.s, d.v), "consolidate_rules"), ReasonRule(d.i) >>)

\* C33: in a rule-propagation sub-pass, for every MustBe (s, v), every rule
\* that mentions v and every Slot t whose cell for the rule's other Value w is
\* neither CannotBe nor Contradiction, a pair that does not validate derives
\* CannotBe(t, w) justified by exactly (the MustBe fact, the rule's index), and
\* a pair that validates derives nothing: the facts the sub-pass collects for
\* two-Value rules are these and no others, a sub-pass that does not fail
\* leaves each such cell CannotBe with one of these justifications, and every
\* CannotBe the sub-pass adds for a two-Value rule is one of them.
C33_FailingPairDerivesCannotBe ==
    [][ (pc = "rules" =>
            LET db == derived_facts
                after == derived_facts'
                derived == PairDerivations(db)
                collected == RulesIntegrations(db, lock)
            IN  /\ { collected[k] : k \in { j \in 1 .. Len(collected) :
                            collected[j].reasons[2].ref \in PairRuleIndices } }
                        = { DerivedFact(db, d) : d \in derived }
                /\ ~Failed =>
                        \A d \in derived :
                            /\ KindAt(after, d.t, d.w) = CannotBe
                            /\ Lookup(db, d.t, d.w) = None =>
                                    \E e \in derived :
                                        FactAt(after, Lookup(after, d.t, d.w))
                                            = DerivedFact(db, e)
                /\ \A h \in Handles(after) \ Handles(db) :
                        (/\ FactAt(after, h).kind = CannotBe
                         /\ FactAt(after, h).reasons[2].ref \in PairRuleIndices)
                            => \E d \in derived : FactAt(after, h) = DerivedFact(db, d))
      ]_vars

\* A rule-propagation sub-pass has derived from a two-Value rule, and left
\* empty a cell of the rule's other Value whose pair with the given validates.
C33_Witness ==
    /\ pc = "unique_position"
    /\ \E h \in Handles(derived_facts) :
            LET fact == FactAt(derived_facts, h)
            IN  /\ fact.kind = CannotBe
                /\ Len(fact.reasons) = 2
                /\ fact.reasons[2].tag = "Rule"
                /\ fact.reasons[2].ref \in PairRuleIndices
                /\ \E t \in Positions :
                        /\ Lookup(derived_facts, t, fact.activation) = None
                        /\ ValidateTuple(lock.rules[fact.reasons[2].ref + 1], lock,
                                         << FactAt(derived_facts, fact.reasons[1].ref).position,
                                            FactAt(derived_facts, fact.reasons[1].ref).activation >>,
                                         << t, fact.activation >>) = "Ok"


\* The label-adjacency rules of the lock.
AdjacencyRuleIndices ==
    { i \in 0 .. (Len(lock.rules) - 1) : lock.rules[i + 1].kind = RuneFollowsImmediately }

\* The CannotBe a label-adjacency rule derives from the MustBe of (s, v).
AdjacencyFact(db, s, v, i, position, activation) ==
    Fact(CannotBe, position, activation,
         << ReasonFact(Lookup(db, s, v), "consolidate_rules runes"), ReasonRule(i) >>)

\* C34: for a label-adjacency rule (first Label F, second Label G) and a MustBe
\* that places Value v on a Slot labelled F, a rule-propagation sub-pass derives
\* CannotBe(t, v+1) for every candidate Slot t not labelled G (and a sub-pass
\* that does not fail leaves those cells CannotBe); when v is the last Value it
\* derives CannotBe for the given's own cell, and the call ends in that step
\* with a node Contradicted by a ContradictingRequirements fact.
C34_AdjacencyExcludesOtherLabels ==
    [][ (pc = "rules" =>
            LET db == derived_facts
                after == derived_facts'
                integrations == RulesIntegrations(db, lock)
                collected == { integrations[k] : k \in 1 .. Len(integrations) }
            IN  \A s \in Positions, v \in Activations, i \in AdjacencyRuleIndices :
                    (KindAt(db, s, v) = MustBe /\ RuneAt(lock, s) = lock.rules[i + 1].first) =>
                        IF v + 1 < NumActivations
                        THEN \A t \in Positions :
                                (/\ KindAt(db, t, v + 1) \in {"Unknown", MustBe}
                                 /\ RuneAt(lock, t) # lock.rules[i + 1].second) =>
                                    /\ AdjacencyFact(db, s, v, i, t, v + 1) \in collected
                                    /\ ~Failed => KindAt(after, t, v + 1) = CannotBe
                        ELSE /\ AdjacencyFact(db, s, v, i, s, v) \in collected
                             /\ Failed
                             /\ FactAt(after, NewNode.state.fact).kind
                                    = ContradictingRequirements)
      ]_vars

\* A node whose parent is not Contradicted is Contradicted on the cell of a
\* given with the last Value, by the CannotBe a label-adjacency rule derived
\* for that very cell.
C34_Witness ==
    \E n \in NonRootNodes :
        LET db == Node(n).facts
        IN  /\ Node(n).state.kind = "Contradicts"
            /\ Node(Node(n).parent).state = Unexplored
            /\ LET contradiction == FactAt(db, Node(n).state.fact)
               IN  /\ contradiction.kind = ContradictingRequirements
                   /\ contradiction.activation = NumActivations - 1
                   /\ \E h \in CitedFacts(db, Node(n).state.fact) :
                        /\ FactAt(db, h).kind = CannotBe
                        /\ Len(FactAt(db, h).reasons) = 2
                        /\ FactAt(db, h).reasons[2].tag = "Rule"
                        /\ FactAt(db, h).reasons[2].ref \in AdjacencyRuleIndices


----------------------------------------------------------------------------
\* Collect, then integrate

\* The facts the sub-pass about to run collects from database db.
SubPassIntegrations(db) ==
    IF pc = "unique_position" THEN UniqueIntegrations(db, ViewRunePosition)
    ELSE IF pc = "unique_activation" THEN UniqueIntegrations(db, ViewActivation)
    ELSE RulesIntegrations(db, lock)

\* The derivations a rule-propagation sub-pass owes on database db for the
\* label-adjacency rules: the next Value's candidates that do not validate, or
\* the given's own cell when the given holds the last Value.
AdjacencyDerivations(db) ==
    LET givens == { c \in Cells : KindAt(db, c[1], c[2]) = MustBe }
    IN  UNION { { [s |-> gi[1][1], v |-> gi[1][2], i |-> gi[2], t |-> c[1], w |-> c[2]] :
                    c \in { c \in Cells :
                              /\ RuneAt(lock, gi[1][1]) = lock.rules[gi[2] + 1].first
                              /\ IF gi[1][2] + 1 < NumActivations
                                 THEN /\ c[2] = gi[1][2] + 1
                                      /\ KindAt(db, c[1], c[2]) \in {"Unknown", MustBe}
                                      /\ ValidateTuple(lock.rules[gi[2] + 1], lock, gi[1], c) # "Ok"
                                 ELSE c = gi[1] } } :
                gi \in givens \X AdjacencyRuleIndices }

\* How many of the collected facts are about the cell.
Targets(collected, cell) ==
    Cardinality({ k \in 1 .. Len(collected) :
                    /\ collected[k].position = cell[1]
                    /\ collected[k].activation = cell[2] })

\* C35: within one consolidation sub-pass every derived fact is computed from
\* the database as it was when the sub-pass started. Every fact the sub-pass
\* adds to the log (but for the ContradictingRequirements that integration
\* itself writes) is one of the facts collected from the starting database and
\* cites only facts that were in the log at the start; and no derivation is
\* suppressed or added by another's result: a rule-propagation sub-pass
\* collects, for each cell, as many facts as the starting database has failing
\* (given, rule) pairs for it, and a uniqueness sub-pass collects for each line
\* what the starting database's line calls for.
C35_SubPassReadsItsStartingDatabase ==
    [][ (Consolidating =>
            LET db == derived_facts
                after == derived_facts'
                collected == SubPassIntegrations(db)
                owed == PairDerivations(db) \cup AdjacencyDerivations(db)
            IN  /\ \A h \in Handles(after) \ Handles(db) :
                        FactAt(after, h).kind # ContradictingRequirements =>
                            /\ CitedFacts(after, h) \subseteq Handles(db)
                            /\ \E k \in 1 .. Len(collected) : collected[k] = FactAt(after, h)
                /\ pc = "rules" =>
                        \A cell \in Cells :
                            Targets(collected, cell)
                                = Cardinality({ d \in owed : << d.t, d.w >> = cell })
                /\ pc # "rules" =>
                        \A view \in 0 .. (ViewCount(SubPassView) - 1) :
                            LET T == SubPassView
                                line == { << ChoosePosition(T, view, c), ChooseActivation(T, view, c) >> :
                                            c \in 0 .. (ComplementCount(T) - 1) }
                                open == line \cap EmptyCells(db)
                                count == Cardinality({ k \in 1 .. Len(collected) :
                                            << collected[k].position, collected[k].activation >> \in line })
                            IN  count = IF \E c \in line : KindAt(db, c[1], c[2]) = MustBe
                                        THEN ComplementCount(T) - 1
                                        ELSE IF Cardinality(open) = 1 THEN 1
                                        ELSE IF open = {} THEN ComplementCount(T)
                                        ELSE 0)
      ]_vars

\* A rule-propagation sub-pass has run on a database in which two rules
\* excluded the same cell for the same given: the cell holds the CannotBe of
\* one of them, and the other rule's pair fails as well.
C35_Witness ==
    /\ pc = "unique_position"
    /\ \E h \in Handles(derived_facts) :
            LET fact == FactAt(derived_facts, h)
            IN  /\ fact.kind = CannotBe
                /\ Len(fact.reasons) = 2
                /\ fact.reasons[2].tag = "Rule"
                /\ Lookup(derived_facts, fact.position, fact.activation) = h
                /\ \E j \in 0 .. (Len(lock.rules) - 1) :
                        /\ j # fact.reasons[2].ref
                        /\ LET given == FactAt(derived_facts, fact.reasons[1].ref)
                               rule == lock.rules[j + 1]
                           IN  IF rule.kind = RuneFollowsImmediately
                               THEN /\ RuneAt(lock, given.position) = rule.first
                                    /\ fact.activation = given.activation + 1
                                    /\ RuneAt(lock, fact.position) # rule.second
                               ELSE /\ fact.activation \in OtherValues(rule, given.activation)
                                    /\ ValidateTuple(rule, lock,
                                                     << given.position, given.activation >>,
                                                     << fact.position, fact.activation >>) # "Ok"


----------------------------------------------------------------------------
\* Node status and database

\* The log of the database holds a Contradiction fact.
HoldsContradiction(db) ==
    \E h \in Handles(db) : IsContradiction(FactAt(db, h).kind)

\* C36: in every tree node the status is Contradicted exactly when the log of
\* the node's database contains a Contradiction fact, and the handle stored in
\* a Contradicted status denotes a Contradiction fact of that database.
C36_ContradictedIffLogHoldsContradiction ==
    \A n \in 0 .. (Len(nodes) - 1) :
        /\ (Node(n).state.kind = "Contradicts") <=> HoldsContradiction(Node(n).facts)
        /\ Node(n).state.kind = "Contradicts" =>
                /\ Node(n).state.fact \in Handles(Node(n).facts)
                /\ IsContradiction(FactAt(Node(n).facts, Node(n).state.fact).kind)


----------------------------------------------------------------------------
\* The shape of the assumption tree

\* How often node n is listed among the children of node m.
ListedIn(n, m) ==
    Cardinality({ k \in 1 .. Len(Node(m).children) : Node(m).children[k] = n })

\* C37: the assumption tree is a well-formed arena tree: node 0 is the root
\* and the only node without a parent, every other node's parent has a
\* strictly smaller index, every non-root node is listed exactly once among
\* the children of its parent and in no other children list, and the cursor is
\* the index of an existing node.
C37_TreeIsWellFormedArena ==
    /\ Len(nodes) >= 1
    /\ Node(0).parent = None
    /\ \A m \in 0 .. (Len(nodes) - 1) : ListedIn(0, m) = 0
    /\ \A n \in NonRootNodes :
            /\ Node(n).parent \in 0 .. (n - 1)
            /\ \A m \in 0 .. (Len(nodes) - 1) :
                    ListedIn(n, m) = IF m = Node(n).parent THEN 1 ELSE 0
    /\ \A m \in 0 .. (Len(nodes) - 1) :
            \A k \in 1 .. Len(Node(m).children) : Node(m).children[k] \in NonRootNodes
    /\ current \in 0 .. (Len(nodes) - 1)

\* The tree has a node with two children and the cursor has been moved off the
\* node inserted last.
C37_Witness ==
    /\ Len(nodes) = 3
    /\ \E m \in 0 .. 1 : Len(Node(m).children) = 2 /\ current = m


----------------------------------------------------------------------------
\* Grid and log

\* C39: in every database, each non-empty grid cell stores a handle that is a
\* valid index into the database's fact log, and the fact at that handle has
\* the Slot and the Value of the cell's coordinates.
C39_CellHandleDenotesFactOfTheCell ==
    \A db \in Databases :
        \A cell \in Cells :
            db.fact_lookup[cell] # None =>
                /\ db.fact_lookup[cell] \in Handles(db)
                /\ FactAt(db, db.fact_lookup[cell]).position = cell[1]
                /\ FactAt(db, db.fact_lookup[cell]).activation = cell[2]

\* A node's grid is full, with cells written by an assumption, by both
\* uniqueness sub-passes and by rule propagation, and holds a Contradiction.
C39_Witness ==
    \E n \in NonRootNodes :
        LET db == Node(n).facts
        IN  /\ \E cell \in Cells : IsContradiction(KindAt(db, cell[1], cell[2]))
            /\ \E cell \in Cells : KindAt(db, cell[1], cell[2]) = MustBe
                    /\ FactAt(db, db.fact_lookup[cell]).reasons # << ReasonAssumption >>
            /\ \E cell \in Cells : KindAt(db, cell[1], cell[2]) = CannotBe
                    /\ Len(FactAt(db, db.fact_lookup[cell]).reasons) = 2
                    /\ FactAt(db, db.fact_lookup[cell]).reasons[2].tag = "Rule"


----------------------------------------------------------------------------
\* The legacy search driver (solver/mod.rs, solver/solver_state.rs)

\* Assignment::new(array): Err when an Activation sits on two RunePositions.
AssignmentFromArray(target) ==
    IF \E p, q \in Positions : p # q /\ target[p] # None /\ target[p] = target[q]
    THEN AssignmentErr
    ELSE [ok |-> TRUE,
          activation_of_position |-> target,
          position_of_activation |->
            [a \in Activations |->
                IF \E p \in Positions : target[p] = a
                THEN CHOOSE p \in Positions : target[p] = a
                ELSE None]]

\* SolverState::fixed_assignments, before its expect.
FixedAssignments(state) ==
    AssignmentFromArray([p \in Positions |->
                            IF state[p].tag = "Unsure" THEN None ELSE state[p].activation])

\* Assignment::contains
AssignmentContains(assignment, a) ==
    \E p \in Positions : assignment.activation_of_position[p] = a

\* RuneLock::validate: the first rule that fails decides.
RuneLockValidate(the_lock, assignment) ==
    IF \A i \in 1 .. Len(the_lock.rules) : Validate(the_lock.rules[i], the_lock, assignment) = "Ok"
    THEN "Ok"
    ELSE "Err"

\* SolverState::prune_state: an Unsure field keeps the Activations that are not
\* fixed elsewhere and whose assignment validates. fixed_assignments panics on
\* an invalid Assignment.
PruneState(state, the_lock) ==
    LET assignment == FixedAssignments(state)
    IN  IF ~assignment.ok
        THEN [kind |-> "Panic", state |-> state]
        ELSE [kind |-> "Ok",
              state |->
                [position \in Positions |->
                    IF state[position].tag = "Unsure"
                    THEN FieldUnsure({ possibility \in state[position].possibilities :
                            /\ ~AssignmentContains(assignment, possibility)
                            /\ RuneLockValidate(the_lock,
                                    AssignmentAssign(assignment, position, possibility)) = "Ok" })
                    ELSE state[position]]]

\* SolverState::assume: Err when the field or the Activation is already fixed.
SolverStateAssume(state, position, to_be) ==
    IF state[position].tag # "Unsure"
    THEN [kind |-> "Err", state |-> state]
    ELSE IF \E old_position \in Positions :
                /\ state[old_position].tag # "Unsure"
                /\ state[old_position].activation = to_be
    THEN [kind |-> "Err", state |-> state]
    ELSE [kind |-> "Ok", state |-> [state EXCEPT ![position] = FieldAssumed(to_be)]]

\* SolverState::with_assumed
WithAssumed(state, the_lock, position, to_be) ==
    LET assumed == SolverStateAssume(state, position, to_be)
    IN  IF assumed.kind = "Err" THEN assumed ELSE PruneState(assumed.state, the_lock)

\* ActivationPossibility
PossibilityNone == [tag |-> "None", position |-> None]
PossibilityAt(tag, position) == [tag |-> tag, position |-> position]

\* The first loop of deduce from `position` on: what each Activation's entry of
\* activation_possibility becomes.
RECURSIVE ActivationPossibilityFrom(_, _, _)
ActivationPossibilityFrom(state, position, found) ==
    IF position >= 12
    THEN found
    ELSE LET field == state[position]
             next ==
                IF field.tag = "Deduced"
                THEN [found EXCEPT ![field.activation] = PossibilityAt("AlreadyDeduced", None)]
                ELSE IF field.tag = "Assumed"
                THEN [found EXCEPT ![field.activation] = PossibilityAt("AlreadyAssumed", None)]
                ELSE IF Cardinality(field.possibilities) = 1
                THEN [a \in Activations |->
                        IF a \in field.possibilities
                        THEN PossibilityAt("ForcedAt", position)
                        ELSE found[a]]
                ELSE [a \in Activations |->
                        IF a \notin field.possibilities THEN found[a]
                        ELSE IF found[a].tag = "None"
                        THEN PossibilityAt("ExactlyOne", position)
                        ELSE IF found[a].tag = "ExactlyOne"
                        THEN PossibilityAt("MoreThanOne", None)
                        ELSE found[a]]
         IN  ActivationPossibilityFrom(state, position + 1, next)

\* The second loop of deduce from `activation` on, and its end.
RECURSIVE DeduceFrom(_, _, _, _, _)
DeduceFrom(found, activation, deduced_state, was_changed, the_lock) ==
    IF activation >= 12
    THEN IF was_changed
         THEN LET pruned == PruneState(deduced_state, the_lock)
              IN  IF pruned.kind = "Panic"
                  THEN pruned
                  ELSE [kind |-> "MadeDeductions", state |-> pruned.state]
         ELSE [kind |-> "Indecisive", state |-> deduced_state]
    ELSE IF found[activation].tag \in {"ForcedAt", "ExactlyOne"}
    THEN IF deduced_state[found[activation].position].tag # "Unsure"
         THEN [kind |-> "Unsolvable", state |-> deduced_state]
         ELSE DeduceFrom(found, activation + 1,
                         [deduced_state EXCEPT ![found[activation].position] =
                                                    FieldDeduced(activation)],
                         TRUE, the_lock)
    ELSE IF found[activation].tag = "None"
    THEN [kind |-> "Unsolvable", state |-> deduced_state]
    ELSE DeduceFrom(found, activation + 1, deduced_state, was_changed, the_lock)

\* SolverState::deduce
Deduce(state, the_lock) ==
    DeduceFrom(ActivationPossibilityFrom(state, 0, [a \in Activations |-> PossibilityNone]),
               0, state, FALSE, the_lock)

\* The loop of deduce_with_assumption.
RECURSIVE DeduceLoop(_, _)
DeduceLoop(substates, the_lock) ==
    LET deduced == Deduce(substates[Len(substates)], the_lock)
    IN  IF deduced.kind = "MadeDeductions"
        THEN DeduceLoop(Append(substates, deduced.state), the_lock)
        ELSE IF deduced.kind = "Indecisive"
        THEN [kind |-> "Done", steps |-> substates]
        ELSE [kind |-> deduced.kind, steps |-> substates]

\* SolverState::deduce_with_assumption: Err, Unsolvable or Done(steps); the
\* Solved variant is never constructed.
DeduceWithAssumption(state, the_lock, position, to_be) ==
    LET assumed == WithAssumed(state, the_lock, position, to_be)
    IN  IF assumed.kind # "Ok"
        THEN [kind |-> assumed.kind, steps |-> << >>]
        ELSE DeduceLoop(<< assumed.state >>, the_lock)

\* Solver::peek on the node under the cursor.
Peek(solver) ==
    LET chain == solver.nodes[solver.current + 1].deduction_chain
    IN  chain[Len(chain)]

\* SolverNodeData::rule_out on node `handle`: ruled_out panics on a fixed field.
RuleOut(solver, handle, position, activation) ==
    LET chain == solver.nodes[handle + 1].deduction_chain
        last == chain[Len(chain)]
    IN  IF last[position].tag # "Unsure"
        THEN [solver EXCEPT !.result = "Panic"]
        ELSE [solver EXCEPT !.nodes[handle + 1].deduction_chain =
                Append(chain, [last EXCEPT ![position] =
                                FieldUnsure(last[position].possibilities \ {activation})])]

\* SolverNodes::insert_child
SolverNodesInsertChild(tree, parent, child) ==
    LET pushed == Append(tree, child)
        child_handle == Len(pushed) - 1
    IN  [pushed EXCEPT ![parent + 1].children = Append(@, child_handle)]

\* Solver::explore
Explore(solver, the_lock, position, assume_to_be) ==
    LET deduced == DeduceWithAssumption(Peek(solver), the_lock, position, assume_to_be)
    IN  IF deduced.kind = "Unsolvable"
        THEN LET ruled == RuleOut(solver, solver.current, position, assume_to_be)
             IN  IF ruled.result = "Panic" THEN ruled
                 ELSE [ruled EXCEPT !.result = "Unsolvable"]
        ELSE IF deduced.kind = "Done"
        THEN [solver EXCEPT
                !.nodes = SolverNodesInsertChild(solver.nodes, solver.current,
                            SolverNode(solver.current, "Alive", deduced.steps,
                                       SolverNodeActionAssume(position, assume_to_be))),
                !.current = Len(solver.nodes),
                !.result = "Indecisive"]
        ELSE [solver EXCEPT !.result = deduced.kind]

\* SolverNodes::parent_of
ParentOf(tree, node) == tree[node + 1].parent

\* What try_activation and try_in_position do when no candidate was left
\* standing: the node is marked Unsolvable, the cursor moves to
\* parent_of(current).unwrap(), and the node's assumption is ruled out there.
GiveUp(solver) ==
    LET marked == [solver EXCEPT !.nodes[solver.current + 1].state = "Unsolvable"]
        assumption_made == solver.nodes[solver.current + 1].action
        parent == ParentOf(solver.nodes, solver.current)
    IN  IF parent = None
        THEN [marked EXCEPT !.result = "Panic"]
        ELSE LET moved == [marked EXCEPT !.current = parent]
             IN  IF assumption_made.kind = "Assume"
                 THEN LET ruled == RuleOut(moved, parent, assumption_made.position,
                                           assumption_made.activation)
                      IN  IF ruled.result = "Panic" THEN ruled
                          ELSE [ruled EXCEPT !.result = "Unsolvable"]
                 ELSE [moved EXCEPT !.result = "Unsolvable"]

\* The loop of try_activation and try_in_position over to_try[i..], a sequence
\* of <<position, activation>>: an Err or an Indecisive ends the call.
RECURSIVE TryFrom(_, _, _, _)
TryFrom(solver, the_lock, to_try, i) ==
    IF i > Len(to_try)
    THEN GiveUp(solver)
    ELSE LET explored == Explore(solver, the_lock, to_try[i][1], to_try[i][2])
         IN  IF explored.result = "Unsolvable"
             THEN TryFrom(explored, the_lock, to_try, i + 1)
             ELSE explored

\* SolverState::possible_positions_of: every RunePosition whose field is Unsure.
PossiblePositionsOf(state, activation) ==
    SelectSeq(Indices(12), LAMBDA position : state[position].tag = "Unsure")

\* SolverState::possible_activations_of: the field's possibilities, sorted.
PossibleActivationsOf(state, pos) ==
    SelectSeq(Indices(12), LAMBDA a : state[pos].tag = "Unsure"
                                       /\ a \in state[pos].possibilities)

\* Solver::try_activation
SolverTryActivation(solver, the_lock, activation) ==
    LET found == PossiblePositionsOf(Peek(solver), activation)
    IN  TryFrom(solver, the_lock,
                [i \in 1 .. Len(found) |-> << found[i], activation >>], 1)

\* Solver::try_in_position
SolverTryInPosition(solver, the_lock, position) ==
    LET found == PossibleActivationsOf(Peek(solver), position)
    IN  TryFrom(solver, the_lock,
                [i \in 1 .. Len(found) |-> << position, found[i] >>], 1)

\* At most MaxCalls calls of explore, try_activation and try_in_position are
\* made on one Solver.
MaxCalls == 2

\* Solver::try_activation(lock, activation); a panic ends the program.
TryActivation(activation) ==
    /\ legacy.result # "Panic"
    /\ Len(legacy.nodes) < MaxNodes
    /\ legacy.calls < MaxCalls
    /\ legacy' = [SolverTryActivation(legacy, lock, activation)
                    EXCEPT !.calls = legacy.calls + 1]
    /\ UNCHANGED << solver_vars, text, parsed, index_vars, the_assignment, writes >>

\* Solver::try_in_position(lock, position)
TryInPosition(position) ==
    /\ legacy.result # "Panic"
    /\ Len(legacy.nodes) < MaxNodes
    /\ legacy.calls < MaxCalls
    /\ legacy' = [SolverTryInPosition(legacy, lock, position)
                    EXCEPT !.calls = legacy.calls + 1]
    /\ UNCHANGED << solver_vars, text, parsed, index_vars, the_assignment, writes >>

\* Solver::view(node)
LegacyView(node) ==
    /\ legacy.result # "Panic"
    /\ legacy' = IF node >= Len(legacy.nodes)
                 THEN [legacy EXCEPT !.result = "Err"]
                 ELSE [legacy EXCEPT !.current = node, !.result = "None"]
    /\ UNCHANGED << solver_vars, text, parsed, index_vars, the_assignment, writes >>

\* Solver::explore called on its own, with the cursor where the earlier calls
\* left it.
LegacyExplore(position, activation) ==
    /\ legacy.result # "Panic"
    /\ Len(legacy.nodes) < MaxNodes
    /\ legacy.calls < MaxCalls
    /\ legacy' = [Explore(legacy, lock, position, activation)
                    EXCEPT !.calls = legacy.calls + 1]
    /\ UNCHANGED << solver_vars, text, parsed, index_vars, the_assignment, writes >>

NextLegacy ==
    \/ \E position \in 0 .. MaxPosition, activation \in 0 .. MaxActivation :
            LegacyExplore(position, activation)
    \/ \E activation \in 0 .. MaxActivation : TryActivation(activation)
    \/ \E position \in 0 .. MaxPosition : TryInPosition(position)
    \/ \E node \in 0 .. MaxNodes : LegacyView(node)

SpecLegacy == Init /\ [][NextLegacy]_vars

\* C38: try_activation and try_in_position never panic: when every candidate
\* explored from the node under the cursor is unsolvable, the node is marked
\* Unsolvable and the cursor moves to its parent, also when the node is the
\* root.
C38_TryNeverPanics == legacy.result # "Panic"

====
